---- MODULE Spec2Model ----
(***************************************************************************)
(* The ignore / selection engine of RepoPacker (CheckableDirectoryTree),   *)
(* in the three evolutions kept in the repository:                         *)
(*   "repoyank"  src/repoyank.py                                           *)
(*   "app"       src/repopacker/app.py                                     *)
(*   "repopack"  src/repopack.py                                           *)
(*                                                                         *)
(* A file name is the sequence of its dot-separated components             *)
(* ("main.txt" is <<"main","txt">>, ".venv" is <<"","venv">>), so that     *)
(* fnmatch can be computed; a path is the sequence of its names below "/". *)
(***************************************************************************)
EXTENDS Integers, Sequences, FiniteSets, TLC

VARIABLES
    version,                      \* which evolution of the program runs
    project_root,                 \* CheckableDirectoryTree.project_root
    additional_ignored_patterns,  \* CheckableDirectoryTree.additional_ignored_patterns
    fs,                           \* the filesystem: path -> entry
    selected_paths,               \* CheckableDirectoryTree.selected_paths
    gitignore_matchers,           \* CheckableDirectoryTree._gitignore_matchers
    last,                         \* the latest call: its arguments and what it returned
    app,                          \* RepoPackerApp: its screens, project and tree panel
    messages,                     \* SelectionChanged messages the application has yet to handle
    resolution,                   \* the get_selected_final_files call in progress
    selected_files_md             \* the sidebar: what #selected_files_md shows

vars == <<version, project_root, additional_ignored_patterns, fs,
          selected_paths, gitignore_matchers, last, app,
          messages, resolution, selected_files_md>>

Versions == {"repoyank", "app", "repopack"}

(***************************************************************************)
(* Program constants.                                                      *)
(***************************************************************************)
MAX_FILE_SIZE_MB == 10
DEFAULT_BINARY_SAMPLE_SIZE == 1024
BytesPerMB == 1048576

\* A pattern of an ignore list: its text without the trailing "/", and
\* whether it ended with "/".
Glob(t) == [text |-> t, dir |-> FALSE]
DirPat(t) == [text |-> t, dir |-> TRUE]

DEFAULT_IGNORES == <<
    DirPat(<<"", "git">>), DirPat(<<"", "hg">>), DirPat(<<"", "svn">>),
    DirPat(<<"__pycache__">>), Glob(<<"*", "pyc">>), Glob(<<"*", "pyo">>),
    Glob(<<"*", "pyd">>), Glob(<<"", "Python">>), DirPat(<<"build">>),
    DirPat(<<"develop-eggs">>), DirPat(<<"dist">>), DirPat(<<"downloads">>),
    DirPat(<<"eggs">>), DirPat(<<"", "eggs">>), DirPat(<<"lib">>),
    DirPat(<<"lib64">>), DirPat(<<"parts">>), DirPat(<<"sdist">>),
    DirPat(<<"var">>), DirPat(<<"wheels">>), DirPat(<<"*", "egg-info">>),
    Glob(<<"", "installed", "cfg">>), Glob(<<"*", "egg">>), Glob(<<"MANIFEST">>),
    Glob(<<"", "env">>), Glob(<<"", "venv">>), DirPat(<<"env">>),
    DirPat(<<"venv">>), DirPat(<<"ENV">>), DirPat(<<"VENV">>),
    DirPat(<<"node_modules">>), Glob(<<"npm-debug", "log">>),
    Glob(<<"yarn-error", "log">>), DirPat(<<"", "vscode">>),
    DirPat(<<"", "idea">>), Glob(<<"*", "sublime-project">>),
    Glob(<<"*", "sublime-workspace">>), Glob(<<"", "project">>),
    Glob(<<"", "classpath">>), Glob(<<"", "cproject">>),
    DirPat(<<"", "settings">>), Glob(<<"", "DS_Store">>), Glob(<<"Thumbs", "db">>),
    Glob(<<"*", "png">>), Glob(<<"*", "jpg">>), Glob(<<"*", "jpeg">>),
    Glob(<<"*", "gif">>), Glob(<<"*", "bmp">>), Glob(<<"*", "tiff">>),
    Glob(<<"*", "ico">>), Glob(<<"*", "mp3">>), Glob(<<"*", "wav">>),
    Glob(<<"*", "ogg">>), Glob(<<"*", "flac">>), Glob(<<"*", "mp4">>),
    Glob(<<"*", "avi">>), Glob(<<"*", "mov">>), Glob(<<"*", "mkv">>),
    Glob(<<"*", "webm">>), Glob(<<"*", "zip">>), Glob(<<"*", "tar", "gz">>),
    Glob(<<"*", "rar">>), Glob(<<"*", "7z">>), Glob(<<"*", "iso">>),
    Glob(<<"*", "pdf">>), Glob(<<"*", "doc">>), Glob(<<"*", "docx">>),
    Glob(<<"*", "ppt">>), Glob(<<"*", "pptx">>), Glob(<<"*", "xls">>),
    Glob(<<"*", "xlsx">>), Glob(<<"*", "o">>), Glob(<<"*", "so">>),
    Glob(<<"*", "dll">>), Glob(<<"*", "exe">>), Glob(<<"*", "app">>),
    Glob(<<"*", "jar">>), Glob(<<"*", "war">>), Glob(<<"*", "sqlite">>),
    Glob(<<"*", "db">>), Glob(<<"*", "mdb">>), Glob(<<"*", "accdb">>),
    Glob(<<"*", "log">>), Glob(<<"*", "lock">>) >>

(***************************************************************************)
(* Paths (pathlib.PurePath): lexical operations.                           *)
(***************************************************************************)
DotDot == <<"..">>
GitignoreName == <<"", "gitignore">>

\* Path.parent: the parent of "/" is "/".
Parent(p) == IF p = <<>> THEN <<>> ELSE SubSeq(p, 1, Len(p) - 1)

\* Path.name
Name(p) == IF p = <<>> THEN <<"">> ELSE p[Len(p)]

\* Path.parts, the anchor "/" left out (no pattern names it).
Parts(p) == {p[i] : i \in 1..Len(p)}

\* a.is_relative_to(b): b is a lexical prefix of a.
IsRelativeTo(a, b) == Len(b) <= Len(a) /\ SubSeq(a, 1, Len(b)) = b

\* a.relative_to(b), for a that is relative to b.
RelativeTo(a, b) == SubSeq(a, Len(b) + 1, Len(a))

\* os.path.abspath of an absolute path: ".." segments collapsed lexically.
RECURSIVE NormFrom(_, _)
NormFrom(acc, rest) ==
    IF rest = <<>> THEN acc
    ELSE IF Head(rest) = DotDot THEN NormFrom(Parent(acc), Tail(rest))
    ELSE NormFrom(Append(acc, Head(rest)), Tail(rest))

AbsPath(p) == NormFrom(<<>>, p)

(***************************************************************************)
(* The filesystem.                                                         *)
(***************************************************************************)
MaxSymlinkHops == 2

\* Whether the entry at the (already resolved) place q is a symbolic link.
LinkAt(q) == q \in DOMAIN fs /\ fs[q].kind = "symlink"

\* Path.resolve(): ".." and symbolic links resolved, left to right.
RECURSIVE ResolveFrom(_, _, _)
ResolveFrom(acc, rest, hops) ==
    IF rest = <<>> THEN acc
    ELSE IF Head(rest) = DotDot THEN ResolveFrom(Parent(acc), Tail(rest), hops)
    ELSE LET q == Append(acc, Head(rest)) IN
         IF LinkAt(q) /\ hops > 0
         THEN ResolveFrom(<<>>, fs[q].target \o Tail(rest), hops - 1)
         ELSE ResolveFrom(q, Tail(rest), hops)

Resolve(p) == ResolveFrom(<<>>, p, MaxSymlinkHops)

\* Path.is_symlink()
IsSymlink(p) == p # <<>> /\ LinkAt(Append(Resolve(Parent(p)), Name(p)))

\* What an access through p finds (symbolic links followed).
Kind(p) == LET r == Resolve(p) IN IF r \in DOMAIN fs THEN fs[r].kind ELSE "none"

IsFile(p) == Kind(p) = "file"
IsDir(p) == Kind(p) = "dir"
Entry(p) == fs[Resolve(p)]

\* A variant of Path.iterdir() that does not list the names that start
\* with a dot.
iterdir_without_dotfiles(d) ==
    LET r == Resolve(d) IN
    {Append(d, Name(q)) :
        q \in {x \in DOMAIN fs : x # <<>> /\ Parent(x) = r /\ Name(x)[1] # ""}}

\* Path.iterdir() of a directory.
IterDir(d) ==
    LET r == Resolve(d) IN
    {Append(d, Name(q)) : q \in {x \in DOMAIN fs : x # <<>> /\ Parent(x) = r}}

\* The listing of the directory raises OSError (PermissionError).
ListingFails(d) == IsDir(d) /\ ~Entry(d).readable

\* The children a loop over iterdir() gets to when the error of the listing
\* is caught around the loop: none if the listing fails.
Listed(d) == IF ListingFails(d) THEN {} ELSE IterDir(d)

\* A variant of Path.rglob("*") that yields nothing when the listing of a
\* directory below d fails.
rglob_stopped_by_error(d) ==
    LET r == Resolve(d)
        below == {q \in DOMAIN fs : q # r /\ Len(q) > Len(r) /\ SubSeq(q, 1, Len(r)) = r}
    IN IF \E q \in below \cup {r} : fs[q].kind = "dir" /\ ~fs[q].readable THEN {}
       ELSE {d \o SubSeq(q, Len(r) + 1, Len(q)) : q \in below}

\* Path.rglob("*"): every entry below d; a symbolic link is listed and not
\* descended into, and a directory that cannot be listed is passed over.
RECURSIVE RGlob(_)
RGlob(d) ==
    LET kids == Listed(d) IN
    kids \cup UNION {RGlob(k) : k \in {x \in kids : IsDir(x) /\ ~IsSymlink(x)}}

\* Names in ascending order of their strings (str.__lt__).
NameOrder == << DotDot, GitignoreName, <<"", "venv">>, <<"build">>, <<"cfg", "txt">>,
                <<"home">>, <<"image", "png">>, <<"key", "txt">>, <<"link">>, <<"loop">>,
                <<"main", "txt">>, <<"notes", "bin">>, <<"out", "txt">>, <<"proj">>,
                <<"secret", "txt">>, <<"src">>, <<"var">>, <<"vault">> >>

(***************************************************************************)
(* Ignore rules.                                                           *)
(***************************************************************************)
\* fnmatch.fnmatch(name, pattern) for the two shapes of pattern the lists
\* hold: "*" followed by a literal suffix, and a literal.
FnMatch(name, pat) ==
    IF Len(pat) >= 2 /\ pat[1] = "*"
    THEN /\ Len(name) >= Len(pat)
         /\ SubSeq(name, Len(name) - Len(pat) + 2, Len(name)) = Tail(pat)
    ELSE name = pat

\* A variant of the pattern loop's turn that tries a glob on every segment
\* of the path.
pattern_matches_any_segment(pat, parts, name, isdir) ==
    IF pat.dir
    THEN pat.text \in parts \/ (isdir /\ name = pat.text)
    ELSE \E n \in parts \cup {name} : FnMatch(n, pat.text)

\* One turn of the pattern loop on a path with these parts and this name:
\* does pattern pat make the loop return True?
PatternMatches(pat, parts, name, isdir) ==
    IF pat.dir
    THEN pat.text \in parts \/ (isdir /\ name = pat.text)
    ELSE FnMatch(name, pat.text)

\* The pattern loop returns True iff some pattern of the list does.
PatternLoop(pats, p) ==
    \E i \in 1..Len(pats) : PatternMatches(pats[i], Parts(p), Name(p), IsDir(p))

\* The loop over DEFAULT_IGNORES, tabulated once by name: the names a
\* pattern matches as the final name of a path, and as any part of it.
AllNames == {NameOrder[i] : i \in 1..Len(NameOrder)}

DefaultMatchesName ==
    {n \in AllNames : \E i \in 1..Len(DEFAULT_IGNORES) :
                         PatternMatches(DEFAULT_IGNORES[i], {}, n, FALSE)}

DefaultMatchesPart ==
    {n \in AllNames : \E i \in 1..Len(DEFAULT_IGNORES) :
                         PatternMatches(DEFAULT_IGNORES[i], {n}, <<>>, FALSE)}

DefaultMatchesDir ==
    {n \in AllNames : \E i \in 1..Len(DEFAULT_IGNORES) :
                         PatternMatches(DEFAULT_IGNORES[i], {}, n, TRUE)}

is_ignored_by_default_patterns(p) ==
    \/ Name(p) \in DefaultMatchesName
    \/ Parts(p) \cap DefaultMatchesPart # {}
    \/ IsDir(p) /\ Name(p) \in DefaultMatchesDir

is_ignored_by_additional_patterns(p) == PatternLoop(additional_ignored_patterns, p)

\* _validate_path_security: both paths resolved, then compared.
validate_path_security(p, base) ==
    LET r == Resolve(p)
        b == Resolve(base)
    IN IsRelativeTo(r, b) \/ r = b

\* The security test of the two older evolutions: lexical.
is_inside_lexically(p) == IsRelativeTo(p, project_root) \/ p = project_root

(***************************************************************************)
(* .gitignore matchers (gitignore_parser.parse_gitignore).  A matcher is   *)
(* the rules it was parsed from and its base directory; a rule is a        *)
(* pattern and whether it is negated ("!").  "lambda p: False" is the      *)
(* matcher with no rule.                                                   *)
(***************************************************************************)
Rule(neg, pat) == [neg |-> neg, pat |-> pat]
NeverMatches(d) == [rules |-> <<>>, base |-> d]

\* parse_gitignore(gf, base_dir = d); an unreadable file raises IOError,
\* which the caller turns into the matcher that never matches.
ParseGitignore(gf, d) ==
    IF Entry(gf).readable THEN [rules |-> Entry(gf).rules, base |-> d]
    ELSE NeverMatches(d)

\* The last rule of the file that matches the name, 0 if none does.
RECURSIVE LastRule(_, _, _)
LastRule(rules, name, i) ==
    IF i = 0 THEN 0
    ELSE IF FnMatch(name, rules[i].pat) THEN i
    ELSE LastRule(rules, name, i - 1)

\* matcher(str(path)): "match", "nomatch", or "raise" (the rules take the
\* path relative to the base directory, which raises ValueError for a path
\* that is not below it).
MatcherCall(m, p) ==
    IF m.rules = <<>> THEN "nomatch"
    ELSE LET a == AbsPath(p)
             b == AbsPath(m.base)
         IN IF ~IsRelativeTo(a, b) THEN "raise"
            ELSE LET rel == RelativeTo(a, b)
                     i == IF rel = <<>> THEN 0
                          ELSE LastRule(m.rules, Name(rel), Len(m.rules))
                 IN IF i # 0 /\ ~m.rules[i].neg THEN "match" ELSE "nomatch"

\* The matcher a directory gets on its first use.
load_matcher_repoyank(d) ==
    LET gf == Append(d, GitignoreName) IN
    IF IsFile(gf) /\ validate_path_security(gf, project_root)
    THEN ParseGitignore(gf, d)
    ELSE NeverMatches(d)

load_matcher_app(d) ==
    LET gf == Append(d, GitignoreName) IN
    IF IsFile(gf) THEN ParseGitignore(gf, d) ELSE NeverMatches(d)

load_matcher(d) ==
    IF version = "repoyank" THEN load_matcher_repoyank(d) ELSE load_matcher_app(d)

Reverse(s) == [i \in 1..Len(s) |-> s[Len(s) + 1 - i]]
Range(s) == {s[i] : i \in 1..Len(s)}

\* The directories whose .gitignore is consulted, in the order of the loop.
RECURSIVE gitignore_walk_repoyank(_, _)
gitignore_walk_repoyank(cur, acc) ==
    IF cur = Parent(project_root) \/ cur = Parent(cur) THEN acc
    ELSE LET acc2 == IF cur = project_root \/ IsRelativeTo(project_root, cur)
                     THEN Append(acc, cur) ELSE acc
         IN IF ~validate_path_security(cur, project_root) \/ cur = project_root
            THEN acc2
            ELSE gitignore_walk_repoyank(Parent(cur), acc2)

gitignore_dirs_repoyank(p) ==
    LET w == gitignore_walk_repoyank(Parent(p), <<>>)
        dirs == IF project_root \in Range(w) THEN w ELSE Append(w, project_root)
    IN Reverse(dirs)

RECURSIVE gitignore_walk_app(_, _)
gitignore_walk_app(cur, acc) ==
    IF cur = project_root \/ cur = Parent(cur) THEN acc
    ELSE IF ~IsRelativeTo(cur, project_root) THEN Append(acc, cur)
    ELSE gitignore_walk_app(Parent(cur), Append(acc, cur))

gitignore_dirs_app(p) ==
    LET dirs == IF Parent(p) # project_root /\ IsRelativeTo(Parent(p), project_root)
                THEN gitignore_walk_app(Parent(p), <<project_root>>)
                ELSE <<project_root>>
    IN Reverse(dirs)

RECURSIVE gitignore_walk_repopack(_, _)
gitignore_walk_repopack(cur, acc) ==
    IF cur = Parent(cur) \/ ~(IsRelativeTo(cur, project_root) \/ cur = project_root)
    THEN acc
    ELSE IF cur = project_root THEN Append(acc, cur)
    ELSE gitignore_walk_repopack(Parent(cur), Append(acc, cur))

gitignore_dirs_repopack(p) ==
    LET w == gitignore_walk_repopack(Parent(p), <<>>) IN
    IF project_root \notin Range(w) /\ (project_root = Parent(p) \/ project_root = p)
    THEN Append(w, project_root)
    ELSE w

gitignore_dirs(p) ==
    CASE version = "repoyank" -> gitignore_dirs_repoyank(p)
      [] version = "app" -> gitignore_dirs_app(p)
      [] OTHER -> gitignore_dirs_repopack(p)

\* The loop over the directories: each matcher is taken from the cache, or
\* loaded and cached; the first one that matches ends the loop.
\* A variant of the lookup that does not use the cache.
matcher_reloaded(d, cache) == [matcher |-> load_matcher(d), parsed |-> <<d>>]

\* self._gitignore_matchers.get(d), and the load when it gives None: the
\* matcher, and the directories whose .gitignore was looked for and parsed.
matcher_for(d, cache) ==
    IF d \in DOMAIN cache THEN [matcher |-> cache[d], parsed |-> <<>>]
    ELSE [matcher |-> load_matcher(d), parsed |-> <<d>>]

cache_with(cache, d, m) ==
    [x \in DOMAIN cache \cup {d} |-> IF x = d THEN m ELSE cache[x]]

RECURSIVE gitignore_loop(_, _, _, _)

\* What the rest of the loop gave, after the directories parsed before it.
ParsedBefore(first, r) == [r EXCEPT !.parsed = first \o r.parsed]

\* One turn of the loop, m being the lookup of the directory dirs[i].
gitignore_turn(dirs, p, cache, i, m) ==
    IF MatcherCall(m.matcher, p) = "nomatch"
    THEN ParsedBefore(m.parsed,
             gitignore_loop(dirs, p, cache_with(cache, dirs[i], m.matcher), i + 1))
    ELSE [res |-> MatcherCall(m.matcher, p),
          cache |-> cache_with(cache, dirs[i], m.matcher),
          parsed |-> m.parsed]

gitignore_loop(dirs, p, cache, i) ==
    IF i > Len(dirs) THEN [res |-> "nomatch", cache |-> cache, parsed |-> <<>>]
    ELSE gitignore_turn(dirs, p, cache, i, matcher_for(dirs[i], cache))

is_ignored_by_gitignore(p, cache) == gitignore_loop(gitignore_dirs(p), p, cache, 1)

(***************************************************************************)
(* _is_path_ignored: the verdict, the return statement that gave it, and   *)
(* the matcher cache it leaves.                                            *)
(***************************************************************************)
Verdict(ig, st, c) == [ignored |-> ig, step |-> st, cache |-> c, parsed |-> <<>>]

\* What _is_path_ignored makes of the result g of the .gitignore step.
gitignore_verdict(g) ==
    [ (CASE g.res = "match" -> Verdict(TRUE, "gitignore", g.cache)
         [] g.res = "raise" -> Verdict(FALSE, "raise", g.cache)
         [] OTHER -> Verdict(FALSE, "none", g.cache))
      EXCEPT !.parsed = g.parsed ]

is_path_ignored_rules(p, cache) ==
    IF is_ignored_by_default_patterns(p) THEN Verdict(TRUE, "default", cache)
    ELSE IF is_ignored_by_additional_patterns(p) THEN Verdict(TRUE, "additional", cache)
    ELSE gitignore_verdict(is_ignored_by_gitignore(p, cache))

is_path_ignored_repoyank(p, cache) ==
    IF ~validate_path_security(p, project_root) THEN Verdict(TRUE, "security", cache)
    ELSE is_path_ignored_rules(p, cache)

is_path_ignored_app(p, cache) ==
    IF ~is_inside_lexically(p) THEN Verdict(TRUE, "security", cache)
    ELSE is_path_ignored_rules(p, cache)

is_path_ignored(p, cache) ==
    IF version = "repoyank" THEN is_path_ignored_repoyank(p, cache)
    ELSE is_path_ignored_app(p, cache)

(***************************************************************************)
(* Selection.  Each operation is computed on a record st of the selection  *)
(* and the matcher cache, and gives the record it leaves.                  *)
(***************************************************************************)
Sel(sel, cache) == [sel |-> sel, cache |-> cache]

\* Whether _is_path_ignored(p) returns True.
Ignored(p, cache) == is_path_ignored(p, cache).ignored

\* A variant of the cache that keeps, for a directory loaded by a call, the
\* matcher that never matches.
cache_after_without_rules(paths, cache) ==
    LET dom == DOMAIN cache
                 \cup UNION {DOMAIN is_path_ignored(n, cache).cache : n \in paths}
    IN [d \in dom |-> IF d \in DOMAIN cache THEN cache[d] ELSE NeverMatches(d)]

\* self._gitignore_matchers once _is_path_ignored has been called on each
\* path of a set: a directory's matcher is loaded on its first use and kept,
\* so every call sees the matcher it would have loaded itself and the order
\* of the calls does not show.
CacheAfter(paths, cache) ==
    LET dom == DOMAIN cache
                 \cup UNION {DOMAIN is_path_ignored(n, cache).cache : n \in paths}
    IN [d \in dom |-> IF d \in DOMAIN cache THEN cache[d] ELSE load_matcher(d)]

\* The paths _apply_selection_recursive of repoyank.py and repopacker/app.py
\* is called on: the node, and what iterdir() lists below a directory.
RECURSIVE visited_repoyank(_)
visited_repoyank(p) ==
    {p} \cup IF IsDir(p) THEN UNION {visited_repoyank(k) : k \in Listed(p)} ELSE {}

\* A variant of _apply_selection_recursive in which the error of a listing
\* is not caught: the walk ends at the node it was called on.
apply_selection_aborted_by_error(p, select_state, st) ==
    LET nodes == IF \E d \in visited_repoyank(p) : ListingFails(d)
                 THEN {p} ELSE visited_repoyank(p)
    IN IF select_state
       THEN Sel(st.sel \cup {n \in nodes : ~Ignored(n, st.cache)},
                CacheAfter(nodes, st.cache))
       ELSE Sel(st.sel \ nodes, st.cache)

\* A variant of _apply_selection_recursive that adds every node it reaches.
apply_selection_without_ignore_test(p, select_state, st) ==
    LET nodes == visited_repoyank(p) IN
    IF select_state
    THEN Sel(st.sel \cup nodes, CacheAfter(nodes, st.cache))
    ELSE Sel(st.sel \ nodes, st.cache)

apply_selection_recursive_repoyank(p, select_state, st) ==
    LET nodes == visited_repoyank(p) IN
    IF select_state
    THEN Sel(st.sel \cup {n \in nodes : ~Ignored(n, st.cache)},
             CacheAfter(nodes, st.cache))
    ELSE Sel(st.sel \ nodes, st.cache)

\* The same for repopack.py: the ignore test is always made, and an ignored
\* node is not descended into when selecting.
RECURSIVE visited_repopack(_, _, _)
visited_repopack(p, select_state, cache) ==
    {p} \cup IF IsDir(p) /\ (~Ignored(p, cache) \/ ~select_state)
            THEN UNION {visited_repopack(k, select_state, cache) : k \in Listed(p)}
            ELSE {}

apply_selection_recursive_repopack(p, select_state, st) ==
    LET nodes == visited_repopack(p, select_state, st.cache) IN
    Sel(IF select_state THEN st.sel \cup {n \in nodes : ~Ignored(n, st.cache)}
        ELSE st.sel \ nodes,
        CacheAfter(nodes, st.cache))

apply_selection_recursive(p, select_state, st) ==
    IF version = "repopack"
    THEN apply_selection_recursive_repopack(p, select_state, st)
    ELSE apply_selection_recursive_repoyank(p, select_state, st)

\* What a toggle leaves: the selection and cache, whether the bell rang
\* (selection refused), whether SelectionChanged was posted, and whether the
\* handler was left by an exception of the ignore test.
Toggled(sel, cache, bell) ==
    [sel |-> sel, cache |-> cache, bell |-> bell, posted |-> ~bell, raised |-> FALSE]

Raised(st, v) ==
    [sel |-> st.sel, cache |-> v.cache, bell |-> FALSE, posted |-> FALSE, raised |-> TRUE]

\* What a toggle leaves when it went through _apply_selection_recursive.
Applied(r) == Toggled(r.sel, r.cache, FALSE)

\* A variant of _toggle_single_node_selection that adds a path without the
\* ignore test.
toggle_single_without_ignore_test(p, st) ==
    IF p \in st.sel THEN Toggled(st.sel \ {p}, st.cache, FALSE)
    ELSE Toggled(st.sel \cup {p}, st.cache, FALSE)

\* The else branch of _toggle_single_node_selection of repoyank.py and
\* repopacker/app.py, v being what _is_path_ignored(p) gave.
select_unless_ignored(p, st, v) ==
    IF v.step = "raise" THEN Raised(st, v)
    ELSE IF v.ignored THEN Toggled(st.sel, v.cache, TRUE)
    ELSE Toggled(st.sel \cup {p}, v.cache, FALSE)

\* The body of _toggle_single_node_selection of repopack.py, v being what
\* _is_path_ignored(p) gave.
toggle_unless_ignored(p, st, v) ==
    IF v.step = "raise" THEN Raised(st, v)
    ELSE IF v.ignored THEN Toggled(st.sel, v.cache, TRUE)
    ELSE IF p \in st.sel THEN Toggled(st.sel \ {p}, v.cache, FALSE)
    ELSE Toggled(st.sel \cup {p}, v.cache, FALSE)

\* A variant of _toggle_single_node_selection that never discards.
toggle_single_never_deselects(p, st) ==
    IF p \in st.sel THEN Toggled(st.sel, st.cache, FALSE)
    ELSE select_unless_ignored(p, st, is_path_ignored(p, st.cache))

\* A variant of _toggle_single_node_selection that makes the ignore test
\* before it looks at the selection.
toggle_single_ignore_test_first(p, st) ==
    toggle_unless_ignored(p, st, is_path_ignored(p, st.cache))

\* _toggle_single_node_selection of repoyank.py and repopacker/app.py.
toggle_single_node_selection_repoyank(p, st) ==
    IF p \in st.sel THEN Toggled(st.sel \ {p}, st.cache, FALSE)
    ELSE select_unless_ignored(p, st, is_path_ignored(p, st.cache))

\* _toggle_single_node_selection of repopack.py: the ignore test comes first.
toggle_single_node_selection_repopack(p, st) ==
    toggle_unless_ignored(p, st, is_path_ignored(p, st.cache))

toggle_single_node_selection(p, st) ==
    IF version = "repopack" THEN toggle_single_node_selection_repopack(p, st)
    ELSE toggle_single_node_selection_repoyank(p, st)

\* _toggle_node_and_children_selection of repoyank.py and repopacker/app.py.
\* A variant of _toggle_node_and_children_selection that refuses an ignored
\* directory as well.
toggle_node_and_children_refusing_ignored(p, st) ==
    LET v == is_path_ignored(p, st.cache) IN
    IF v.ignored /\ p \notin st.sel
    THEN Toggled(st.sel, v.cache, TRUE)
    ELSE Applied(apply_selection_recursive(p, p \notin st.sel, Sel(st.sel, v.cache)))

\* (v is what _is_path_ignored(p) gives: the test is made for a file only.)
apply_unless_ignored_repoyank(p, st, v) ==
    IF IsFile(p) /\ v.ignored /\ p \notin st.sel
    THEN Toggled(st.sel, v.cache, TRUE)
    ELSE Applied(apply_selection_recursive(p, p \notin st.sel,
                     Sel(st.sel, IF IsFile(p) THEN v.cache ELSE st.cache)))

toggle_node_and_children_selection_repoyank(p, st) ==
    apply_unless_ignored_repoyank(p, st, is_path_ignored(p, st.cache))

\* _toggle_node_and_children_selection of repopack.py.
apply_unless_ignored_repopack(p, st, v) ==
    IF v.ignored /\ p \notin st.sel
    THEN Toggled(st.sel, v.cache, TRUE)
    ELSE Applied(apply_selection_recursive(p, p \notin st.sel, Sel(st.sel, v.cache)))

toggle_node_and_children_selection_repopack(p, st) ==
    apply_unless_ignored_repopack(p, st, is_path_ignored(p, st.cache))

toggle_node_and_children_selection(p, st) ==
    IF version = "repopack" THEN toggle_node_and_children_selection_repopack(p, st)
    ELSE toggle_node_and_children_selection_repoyank(p, st)

(***************************************************************************)
(* Resolution of the selection to the list of files to pack.               *)
(***************************************************************************)
\* A variant of is_binary_heuristic that reads no sample.
is_binary_without_sample(f) == ~IsFile(f)

\* is_binary_heuristic: a null byte within the first sample_size bytes
\* (nullAt is the offset of the file's first null byte, -1 if it has none);
\* what is not a readable file counts as binary.
is_binary_heuristic(f) ==
    IF ~IsFile(f) \/ ~Entry(f).readable THEN TRUE
    ELSE Entry(f).nullAt >= 0 /\ Entry(f).nullAt < DEFAULT_BINARY_SAMPLE_SIZE

\* get_file_size_mb(f) <= MAX_FILE_SIZE_MB, the size kept in bytes; what
\* cannot be stat-ed has infinite size.
size_within_limit(f) ==
    IsFile(f) /\ Entry(f).size <= MAX_FILE_SIZE_MB * BytesPerMB

\* The three conditions under which a file is added to collected_files.
is_collectable(f, cache) ==
    ~Ignored(f, cache) /\ ~is_binary_heuristic(f) /\ size_within_limit(f)

\* What rglob("*") gives below the selected directories that are searched.
files_below(dirs) == {f \in UNION {RGlob(d) : d \in dirs} : IsFile(f)}

\* collected_files of repoyank.py after both passes, and the cache left.
\* Both passes run the same body on a file, already_processed_for_collection
\* keeps the second from repeating the first, and collected_files is a set.
collected_files_repoyank(sel, cache) ==
    LET direct == {f \in sel : IsFile(f)}
        dirs == {d \in sel : IsDir(d) /\ validate_path_security(d, project_root)}
        asked == {f \in direct \cup files_below(dirs) :
                    validate_path_security(f, project_root)}
    IN [collected |-> {f \in asked : is_collectable(f, cache)},
        cache |-> CacheAfter(asked, cache)]

\* The same for repopacker/app.py: no security test.
collected_files_app(sel, cache) ==
    LET direct == {f \in sel : IsFile(f)}
        dirs == {d \in sel : IsDir(d)}
        asked == direct \cup files_below(dirs)
    IN [collected |-> {f \in asked : is_collectable(f, cache)},
        cache |-> CacheAfter(asked, cache)]

\* collected_files of repopack.py: one loop; an ignored selected path is
\* skipped with all it holds, and a selected file is not asked about twice.
collected_files_repopack(sel, cache) ==
    LET kept == {p \in sel : ~Ignored(p, cache)}
        items == UNION {RGlob(d) : d \in {k \in kept : IsDir(k)}}
    IN [collected |->
            {f \in items : IsFile(f) /\ is_collectable(f, cache)}
            \cup {f \in kept : /\ ~IsDir(f) /\ IsFile(f)
                                /\ ~is_binary_heuristic(f) /\ size_within_limit(f)},
        cache |-> CacheAfter(sel \cup items, cache)]

collected_files(sel, cache) ==
    CASE version = "repoyank" -> collected_files_repoyank(sel, cache)
      [] version = "app" -> collected_files_app(sel, cache)
      [] OTHER -> collected_files_repopack(sel, cache)

\* The while loop of _is_node_effectively_selected_file: the parents of the
\* file, upwards, as long as they are the project root or below it.
ParentsWithinRoot(f) ==
    {SubSeq(f, 1, k) : k \in {j \in 1..(Len(f) - 1) :
        \A i \in j..(Len(f) - 1) : IsRelativeTo(SubSeq(f, 1, i), project_root)}}

\* _is_node_effectively_selected_file of repoyank.py, v being what
\* _is_path_ignored(f) gave: neither content nor size is looked at.
is_node_effectively_selected_file_repoyank(f, sel, v) ==
    /\ ~v.ignored
    /\ f \in sel \/ ParentsWithinRoot(f) \cap sel # {}

\* _is_node_effectively_selected_file of repopacker/app.py.
is_node_effectively_selected_file_app(f, sel, v) ==
    /\ ~v.ignored
    /\ ~(is_binary_heuristic(f) \/ ~size_within_limit(f))
    /\ f \in sel \/ ParentsWithinRoot(f) \cap sel # {}

is_node_effectively_selected_file(f, sel, v) ==
    IF version = "repoyank" THEN is_node_effectively_selected_file_repoyank(f, sel, v)
    ELSE is_node_effectively_selected_file_app(f, sel, v)

\* relative_collected_files: the collected paths made relative to the root.
relative_collected_files(collected) ==
    {RelativeTo(f, project_root) :
        f \in {g \in collected :
                  /\ version = "repoyank" => validate_path_security(g, project_root)
                  /\ IsRelativeTo(g, project_root)}}

NameRank(n) == CHOOSE i \in 1..Len(NameOrder) : NameOrder[i] = n

\* PurePath.__lt__: the parts compared as lists of strings.
RECURSIVE PathLess(_, _)
PathLess(a, b) ==
    IF a = <<>> THEN b # <<>>
    ELSE IF b = <<>> THEN FALSE
    ELSE IF Head(a) = Head(b) THEN PathLess(Tail(a), Tail(b))
    ELSE NameRank(Head(a)) < NameRank(Head(b))

\* A variant of sorted that gives the list in descending order.
RECURSIVE sorted_descending(_)
sorted_descending(S) ==
    IF S = {} THEN <<>>
    ELSE LET m == CHOOSE x \in S : \A y \in S \ {x} : PathLess(y, x)
         IN <<m>> \o sorted_descending(S \ {m})

\* sorted(list(S))
RECURSIVE Sorted(_)
Sorted(S) ==
    IF S = {} THEN <<>>
    ELSE LET m == CHOOSE x \in S : \A y \in S \ {x} : PathLess(x, y)
         IN <<m>> \o Sorted(S \ {m})

\* A variant of get_selected_final_files that keeps two lists, one per pass,
\* and no record of the files already processed.
two_sorted_lists(sel, acc) ==
    [files |-> Sorted(relative_collected_files({f \in acc.collected : f \in sel}))
               \o Sorted(relative_collected_files(
                     {f \in acc.collected :
                         \E d \in sel : d # f /\ IsRelativeTo(f, d)})),
     cache |-> acc.cache]

get_selected_final_files_two_lists(sel, cache) ==
    two_sorted_lists(sel, collected_files(sel, cache))

\* sorted(list(relative_collected_files)), acc being what the passes left.
sorted_relative_files(acc) ==
    [files |-> Sorted(relative_collected_files(acc.collected)), cache |-> acc.cache]

\* get_selected_final_files: the list returned and the cache left.
get_selected_final_files(sel, cache) ==
    sorted_relative_files(collected_files(sel, cache))

(***************************************************************************)
(* The projects a session is opened on.                                    *)
(***************************************************************************)
Dir == [kind |-> "dir", target |-> <<>>, nullAt |-> -1, size |-> 0,
        rules |-> <<>>, readable |-> TRUE]
File(nullAt, size) == [kind |-> "file", target |-> <<>>, nullAt |-> nullAt,
                       size |-> size, rules |-> <<>>, readable |-> TRUE]
Symlink(t) == [kind |-> "symlink", target |-> t, nullAt |-> -1, size |-> 0,
               rules |-> <<>>, readable |-> TRUE]
IgnoreFile(rules) == [kind |-> "file", target |-> <<>>, nullAt |-> -1, size |-> 20,
                      rules |-> rules, readable |-> TRUE]

TextFile == File(-1, 20)

\* A directory that cannot be listed.
LockedDir == [Dir EXCEPT !.readable = FALSE]
NoFunction == [x \in {} |-> Dir]

\* A .gitignore that is there and cannot be opened (PermissionError).
LockedFile(rules) == [IgnoreFile(rules) EXCEPT !.readable = FALSE]

\* An optional .gitignore: a set that is empty or holds the file.
IgnoreAt(d, opt) ==
    IF opt = {} THEN NoFunction
    ELSE Append(d, GitignoreName) :> (CHOOSE e \in opt : TRUE)

\* The entry at a path, if the project has that part.
Part(parts, name, p, e) == IF name \in parts THEN p :> e ELSE NoFunction

AllParts == {"src", "image", "build", "venv", "notes", "link", "vault"}

\* The tree of a project at root, with the file outside it that the
\* symbolic link "link" points to; the symbolic link "loop" points to the
\* root itself.
MakeFs(root, parts, rootIgnore, srcIgnore, notes) ==
    LET up == Parent(root)
        src == Append(root, <<"src">>)
        build == Append(root, <<"build">>)
        venv == Append(root, <<"", "venv">>)
        vault == Append(root, <<"vault">>)
    IN  (<<>> :> Dir) @@ (up :> Dir) @@ (root :> Dir)
        @@ (Append(up, <<"secret", "txt">>) :> TextFile)
        @@ IgnoreAt(root, rootIgnore)
        @@ Part(parts, "src", src, Dir)
        @@ (IF "src" \in parts THEN IgnoreAt(src, srcIgnore) ELSE NoFunction)
        @@ Part(parts, "src", Append(src, <<"main", "txt">>), TextFile)
        @@ Part(parts \cap (IF "src" \in parts THEN {"image"} ELSE {}), "image",
                Append(src, <<"image", "png">>), File(0, 300))
        @@ Part(parts, "build", build, Dir)
        @@ Part(parts, "build", Append(build, <<"out", "txt">>), TextFile)
        @@ Part(parts, "venv", venv, Dir)
        @@ Part(parts, "venv", Append(venv, <<"cfg", "txt">>), TextFile)
        @@ Part(parts, "notes", Append(root, <<"notes", "bin">>), notes)
        @@ Part(parts, "link", Append(root, <<"link">>),
                Symlink(Append(up, <<"secret", "txt">>)))
        @@ Part(parts, "loop", Append(root, <<"loop">>), Symlink(root))
        @@ Part(parts, "vault", vault, LockedDir)
        @@ Part(parts, "vault", Append(vault, <<"key", "txt">>), TextFile)

HomeProj == << <<"home">>, <<"proj">> >>
VarProj == << <<"var">>, <<"proj">> >>
NoUserPatterns == <<>>
SomeUserPatterns == <<DirPat(<<"src">>), Glob(<<"*", "bin">>)>>
IgnorePng == { IgnoreFile(<<Rule(FALSE, <<"*", "png">>)>>) }
IgnoreTxt == { IgnoreFile(<<Rule(FALSE, <<"*", "txt">>)>>) }
IgnoreMain == { IgnoreFile(<<Rule(FALSE, <<"main", "txt">>)>>) }
KeepMain == { IgnoreFile(<<Rule(TRUE, <<"main", "txt">>)>>) }
LockedTxt == { LockedFile(<<Rule(FALSE, <<"*", "txt">>)>>) }
LockedMain == { LockedFile(<<Rule(FALSE, <<"main", "txt">>)>>) }
NullAtStart == File(0, 20)
\* A text file that cannot be opened (PermissionError).
LockedNotes == [TextFile EXCEPT !.readable = FALSE]
NullPastSample == File(DEFAULT_BINARY_SAMPLE_SIZE, 2000)
TooBig == File(-1, MAX_FILE_SIZE_MB * BytesPerMB + 1)

RootChoices == {HomeProj, VarProj}
RootIgnoreChoices == { {}, IgnorePng, IgnoreTxt, LockedTxt }
SrcIgnoreChoices == { {}, IgnoreMain, KeepMain, LockedMain }
NotesChoices == {TextFile, NullAtStart, NullPastSample, TooBig}
UserPatternChoices == {NoUserPatterns, SomeUserPatterns}

Project(root, parts, user, rootIgnore, srcIgnore, notes) ==
    [root |-> root, parts |-> parts, user |-> user, rootIgnore |-> rootIgnore,
     srcIgnore |-> srcIgnore, notes |-> notes]

\* Every combination of the choices, on the whole tree.
AllProjects ==
    {Project(r, AllParts, u, ri, si, n) : r \in RootChoices, u \in UserPatternChoices,
        ri \in RootIgnoreChoices, si \in SrcIgnoreChoices, n \in NotesChoices}

Session(v, w) == [version |-> v, project |-> w]

\* The sessions the selection is exercised in.
Sessions ==
    { Session("repoyank", Project(HomeProj, {"src", "build", "venv"}, NoUserPatterns, {}, {}, TextFile)),
      Session("repoyank", Project(HomeProj, {"src", "image", "notes"}, NoUserPatterns, IgnorePng, {}, NullAtStart)),
      Session("repoyank", Project(HomeProj, {"notes", "link"}, NoUserPatterns, {}, {}, TooBig)),
      Session("repoyank", Project(VarProj, {"src"}, NoUserPatterns, {}, {}, TextFile)),
      Session("repoyank", Project(HomeProj, {"src", "image"}, NoUserPatterns, IgnorePng, {}, TextFile)),
      Session("app", Project(HomeProj, {"src", "venv"}, NoUserPatterns, {}, {}, TextFile)),
      Session("app", Project(HomeProj, {"src"}, NoUserPatterns, IgnoreTxt, KeepMain, TextFile)),
      Session("app", Project(HomeProj, {"notes", "link"}, SomeUserPatterns, {}, {}, NullPastSample)),
      Session("app", Project(HomeProj, {"notes"}, NoUserPatterns, {}, {}, NullAtStart)),
      Session("repoyank", Project(HomeProj, {"src", "vault", "notes"}, NoUserPatterns, {}, {}, LockedNotes)),
      Session("app", Project(HomeProj, {"src", "vault", "notes"}, NoUserPatterns, {}, {}, LockedNotes)),
      Session("repopack", Project(HomeProj, {"src", "venv"}, NoUserPatterns, {}, {}, TextFile)),
      Session("repopack", Project(HomeProj, {"src", "notes"}, NoUserPatterns, {}, IgnoreMain, NullPastSample)) }

\* The project of the sessions in which more than the tree acts.
EventsProject == Project(HomeProj, {"src", "notes"}, NoUserPatterns, {}, {}, TextFile)

\* A project with a symbolic link to the directory that holds it.
CycleProject == Project(HomeProj, {"src", "loop"}, NoUserPatterns, {}, {}, TextFile)

\* The paths the directory tree widget holds nodes for.
TreePaths == {project_root} \cup RGlob(project_root)

\* The paths _is_path_ignored may be asked about: the tree's, a path that
\* leaves the root through "..", and a path outside the root.
Candidates ==
    TreePaths \cup { project_root \o <<DotDot, <<"secret", "txt">>>>,
                     Append(Parent(project_root), <<"secret", "txt">>) }

(***************************************************************************)
(* The state machine.                                                      *)
(***************************************************************************)
\* What the last operation was and gave: its name and argument, whether
\* the argument was selected and was ignored when it was called, the
\* handler's signals, the ignore test's verdict and the list returned.
Blank == [op |-> "init", path |-> <<>>, select |-> FALSE, was |-> FALSE,
          ignored |-> FALSE, bell |-> FALSE, posted |-> FALSE, raised |-> FALSE,
          step |-> "", files |-> <<>>, parsed |-> <<>>, pack |-> FALSE]

\* Optional[Path]: the value that is no path.
None == << <<>> >>

MainScreen == "main"
PathInputScreen == "PathInputScreen"

\* RepoPackerApp: whether it was mounted and has exited, the argument it
\* was constructed with, current_project_path, the screen stack, whether a
\* CheckableDirectoryTree is mounted in the tree panel, the latest
\* notification and the latest handler of the application that ran.
AppState(phase, arg, current, screens, tree, notice, event) ==
    [phase |-> phase, arg_initial_path |-> arg, current_project_path |-> current,
     screens |-> screens, tree |-> tree, notice |-> notice, event |-> event]

\* The application once it was started on a project directory.
StartedOn(root) ==
    AppState("running", root, root, <<MainScreen>>, TRUE, "", "on_mount")

\* The sidebar: "_None selected_", "_No packable files based on current
\* selection._", or the title with the count and one item per file.
Markdown(text, items) == [text |-> text, items |-> items]

NoneSelected == Markdown("None selected", <<>>)

\* What on_checkable_directory_tree_selection_changed makes of the list.
Shown(files) ==
    IF files = <<>> THEN Markdown("No packable files", <<>>)
    ELSE Markdown("Selected Files", files)

\* The frame of get_selected_final_files: where it stands ("idle" when no
\* call is in progress, the pass it is suspended in, "returned", "raised"),
\* the await it is suspended at and the file awaited on, the directory of
\* the second pass, the iterator over self.selected_paths (the size of the
\* set when it was created, what it has yielded, and the members that have
\* been in the set since), the result of the binary test, collected_files,
\* already_processed_for_collection, the list returned, and for the record
\* the selection at the call and how many times it changed since.
NoPath == <<>>

Frame(state) ==
    [state |-> state, at |-> "", item |-> NoPath, dir |-> NoPath,
     used |-> 0, yielded |-> {}, stable |-> {}, is_bin |-> FALSE,
     collected |-> {}, processed |-> {}, files |-> <<>>,
     called_with |-> {}, changes |-> 0]

Idle == Frame("idle")

InProgress == resolution.state \in {"first", "second"}

\* The application does not handle messages and resolves nothing.
Quiet == UNCHANGED <<messages, resolution, selected_files_md>>

\* A session on one of the projects.
Opened(w) ==
    /\ messages = 0
    /\ resolution = Idle
    /\ selected_files_md = NoneSelected
    /\ app = StartedOn(w.root)
    /\ project_root = w.root
    /\ additional_ignored_patterns = w.user
    /\ fs = MakeFs(w.root, w.parts, w.rootIgnore, w.srcIgnore, w.notes)
    /\ selected_paths = {}
    /\ gitignore_matchers = NoFunction
    /\ last = Blank

Init == \E s \in Sessions : version = s.version /\ Opened(s.project)

InitAny == version \in Versions /\ \E w \in AllProjects : Opened(w)

Here == Sel(selected_paths, gitignore_matchers)

\* filter_paths / render: the widget asks whether a path is ignored.
IsPathIgnored(p) ==
    \E v \in {is_path_ignored(p, gitignore_matchers)} :
    /\ gitignore_matchers' = v.cache
    /\ last' = [Blank EXCEPT !.op = "is_path_ignored", !.path = p,
                             !.ignored = v.ignored, !.step = v.step,
                             !.parsed = v.parsed]
    /\ UNCHANGED <<version, project_root, additional_ignored_patterns, fs, selected_paths, app>>

ToggleSingle(p) ==
    \E r \in {toggle_single_node_selection(p, Here)} :
    /\ selected_paths' = r.sel
    /\ gitignore_matchers' = r.cache
    /\ last' = [Blank EXCEPT !.op = "toggle_single", !.path = p,
                             !.was = (p \in selected_paths),
                             !.ignored = Ignored(p, gitignore_matchers),
                             !.bell = r.bell, !.posted = r.posted,
                             !.raised = r.raised]
    /\ UNCHANGED <<version, project_root, additional_ignored_patterns, fs, app>>

ToggleNodeAndChildren(p) ==
    \E r \in {toggle_node_and_children_selection(p, Here)} :
    /\ selected_paths' = r.sel
    /\ gitignore_matchers' = r.cache
    /\ last' = [Blank EXCEPT !.op = "toggle_node_and_children", !.path = p,
                             !.was = (p \in selected_paths),
                             !.ignored = Ignored(p, gitignore_matchers),
                             !.bell = r.bell, !.posted = r.posted]
    /\ UNCHANGED <<version, project_root, additional_ignored_patterns, fs, app>>

\* select all / deselect all (the root), select / deselect in the focused
\* folder (a directory): _apply_selection_recursive, then the message.
ApplySelectionRecursive(p, select_state) ==
    \E r \in {apply_selection_recursive(p, select_state, Here)} :
    /\ selected_paths' = r.sel
    /\ gitignore_matchers' = r.cache
    /\ last' = [Blank EXCEPT !.op = "apply_selection_recursive", !.path = p,
                             !.select = select_state,
                             !.was = (p \in selected_paths), !.posted = TRUE]
    /\ UNCHANGED <<version, project_root, additional_ignored_patterns, fs, app>>

\* render_label of a node of repoyank.py and repopacker/app.py: the checkbox
\* and, for a file, the "(pack)" annotation.
RenderLabel(p) ==
    /\ version \in {"repoyank", "app"}
    /\ \E v \in {is_path_ignored(p, gitignore_matchers)} :
        /\ gitignore_matchers' = IF IsFile(p) THEN v.cache ELSE gitignore_matchers
        /\ last' = [Blank EXCEPT !.op = "render_label", !.path = p,
                                 !.was = (p \in selected_paths),
                                 !.pack = /\ IsFile(p)
                                          /\ is_node_effectively_selected_file(
                                                 p, selected_paths, v)]
    /\ UNCHANGED <<version, project_root, additional_ignored_patterns, fs, selected_paths, app>>

GetSelectedFinalFiles ==
    \E r \in {get_selected_final_files(selected_paths, gitignore_matchers)} :
    /\ gitignore_matchers' = r.cache
    /\ last' = [Blank EXCEPT !.op = "get_selected_final_files", !.files = r.files]
    /\ UNCHANGED <<version, project_root, additional_ignored_patterns, fs, selected_paths, app>>

\* The filesystem is not the program's alone: between two operations the
\* file notes.bin is replaced by a symbolic link to the file outside the
\* root.  Every operation reads the filesystem anew (Path.resolve(),
\* is_file(), iterdir()).
NotesPath == Append(project_root, <<"notes", "bin">>)

ReplacedByLink ==
    /\ NotesPath \in DOMAIN fs
    /\ fs[NotesPath].kind = "file"
    /\ fs' = [fs EXCEPT ![NotesPath] =
                 Symlink(Append(Parent(project_root), <<"secret", "txt">>))]
    /\ last' = [Blank EXCEPT !.op = "replaced_by_link", !.path = NotesPath]
    /\ UNCHANGED <<version, project_root, additional_ignored_patterns,
                   selected_paths, gitignore_matchers, app>>

Next ==
    \/ \E p \in TreePaths : ToggleSingle(p) /\ Quiet
    \/ \E p \in TreePaths : ToggleNodeAndChildren(p) /\ Quiet
    \/ \E p \in {d \in TreePaths : IsDir(d)}, s \in BOOLEAN :
          ApplySelectionRecursive(p, s) /\ Quiet
    \/ GetSelectedFinalFiles /\ Quiet
    \/ \E p \in TreePaths : RenderLabel(p) /\ Quiet
    \/ ReplacedByLink /\ Quiet

Spec == Init /\ [][Next]_vars

\* The same sessions on a disk that does not change.
NextFixed ==
    \/ \E p \in TreePaths : ToggleSingle(p) /\ Quiet
    \/ \E p \in TreePaths : ToggleNodeAndChildren(p) /\ Quiet
    \/ \E p \in {d \in TreePaths : IsDir(d)}, s \in BOOLEAN :
          ApplySelectionRecursive(p, s) /\ Quiet
    \/ GetSelectedFinalFiles /\ Quiet

SpecFixed == Init /\ [][NextFixed]_vars

\* The selection on the project with the link to its own root.
InitCycle == version \in Versions /\ Opened(CycleProject)

NextCycle ==
    \/ \E p \in TreePaths : ToggleSingle(p) /\ Quiet
    \/ \E p \in {d \in TreePaths : IsDir(d)}, s \in BOOLEAN :
          ApplySelectionRecursive(p, s) /\ Quiet
    \/ GetSelectedFinalFiles /\ Quiet

SpecCycle == InitCycle /\ [][NextCycle]_vars

\* The ignore rules alone, on every project.
NextIgnore == \E p \in Candidates : IsPathIgnored(p) /\ Quiet

SpecIgnore == InitAny /\ [][NextIgnore]_vars

(***************************************************************************)
(* The application around the tree (repopacker/app.py): mounting, the      *)
(* path-input dialog, opening a project, quitting.                         *)
(***************************************************************************)
Top(screens) == screens[Len(screens)]
Pop(screens) == SubSeq(screens, 1, Len(screens) - 1)

\* The paths typed into the dialog, or given on the command line: the
\* project directory and a file.
PathInputs == {HomeProj, HomeProj \o << <<"src">>, <<"main", "txt">> >>}

\* RepoPackerApp(initial_path): not yet mounted, no tree.
Constructed(initial_path) ==
    AppState("constructed",
             IF initial_path # None /\ Resolve(initial_path) \in DOMAIN fs
             THEN Resolve(initial_path) ELSE None,
             None, <<MainScreen>>, FALSE, "", "__init__")

InitApp ==
    /\ version = "app"
    /\ fs = MakeFs(HomeProj, {"src"}, {}, {}, TextFile)
    /\ additional_ignored_patterns = NoUserPatterns
    /\ project_root = None
    /\ selected_paths = {}
    /\ gitignore_matchers = NoFunction
    /\ last = Blank
    /\ messages = 0
    /\ resolution = Idle
    /\ selected_files_md = NoneSelected
    /\ \E initial_path \in PathInputs \cup {None} : app = Constructed(initial_path)

\* watch_current_project_path with a directory: the tree panel is emptied
\* and a new CheckableDirectoryTree is mounted on the path.
MountTree(path) ==
    /\ project_root' = Resolve(path)
    /\ selected_paths' = {}
    /\ gitignore_matchers' = NoFunction
    /\ last' = Blank

KeepTree == UNCHANGED <<project_root, selected_paths, gitignore_matchers, last>>

\* on_mount: the project of the command line is opened, or the dialog is.
OnMount ==
    /\ app.phase = "constructed"
    /\ IF app.arg_initial_path # None /\ IsDir(app.arg_initial_path)
       THEN /\ app' = [app EXCEPT !.phase = "running", !.event = "on_mount",
                                   !.current_project_path = app.arg_initial_path,
                                   !.tree = TRUE]
            /\ MountTree(app.arg_initial_path)
       ELSE /\ app' = [app EXCEPT !.phase = "running", !.event = "on_mount",
                                   !.notice = IF app.arg_initial_path # None
                                              THEN "Initial path not valid." ELSE "",
                                   !.screens = Append(app.screens, PathInputScreen)]
            /\ KeepTree
    /\ UNCHANGED <<version, additional_ignored_patterns, fs>>

\* action_open_folder (F5): the dialog is pushed.
ActionOpenFolder ==
    /\ app.phase = "running" /\ Top(app.screens) = MainScreen
    /\ app' = [app EXCEPT !.event = "action_open_folder",
                          !.screens = Append(app.screens, PathInputScreen)]
    /\ KeepTree
    /\ UNCHANGED <<version, additional_ignored_patterns, fs>>

\* A variant of PathInputScreen.action_cancel that does not dismiss.
action_cancel_without_dismiss ==
    /\ app.phase = "running" /\ Top(app.screens) = PathInputScreen
    /\ app' = [app EXCEPT !.event = "action_cancel"]
    /\ KeepTree
    /\ UNCHANGED <<version, additional_ignored_patterns, fs>>

\* PathInputScreen.action_cancel: dismiss(None), then set_new_path(None).
ActionCancel ==
    /\ app.phase = "running" /\ Top(app.screens) = PathInputScreen
    /\ app' = [app EXCEPT !.event = "action_cancel",
                          !.screens = Pop(app.screens),
                          !.notice = IF app.current_project_path = None
                                     THEN "No folder selected." ELSE app.notice]
    /\ KeepTree
    /\ UNCHANGED <<version, additional_ignored_patterns, fs>>

\* PathInputScreen.on_input_submitted with a path: a directory dismisses
\* the dialog and becomes the project (the watcher runs when the value
\* changes); anything else rings the bell and the dialog stays.
OnInputSubmitted(path) ==
    /\ app.phase = "running" /\ Top(app.screens) = PathInputScreen
    /\ IF IsDir(Resolve(path))
       THEN /\ app' = [app EXCEPT !.event = "on_input_submitted",
                                   !.screens = Pop(app.screens),
                                   !.current_project_path = Resolve(path),
                                   !.tree = TRUE]
            /\ IF app.current_project_path = Resolve(path)
               THEN KeepTree ELSE MountTree(path)
       ELSE /\ app' = [app EXCEPT !.event = "bell"]
            /\ KeepTree
    /\ UNCHANGED <<version, additional_ignored_patterns, fs>>

\* action_quit (ctrl+q, a priority binding): App.exit().
ActionQuit ==
    /\ app.phase = "running"
    /\ app' = [app EXCEPT !.phase = "exited", !.event = "action_quit"]
    /\ KeepTree
    /\ UNCHANGED <<version, additional_ignored_patterns, fs>>

\* The tree takes keys when it is mounted and no dialog is over it.
TreeHasFocus == app.phase = "running" /\ app.tree /\ Top(app.screens) = MainScreen

NextApp ==
    \/ OnMount /\ Quiet
    \/ ActionOpenFolder /\ Quiet
    \/ ActionCancel /\ Quiet
    \/ \E path \in PathInputs : OnInputSubmitted(path) /\ Quiet
    \/ ActionQuit /\ Quiet
    \/ TreeHasFocus /\ Quiet /\ \E p \in TreePaths : ToggleSingle(p)
    \/ TreeHasFocus /\ Quiet /\ \E s \in BOOLEAN : ApplySelectionRecursive(project_root, s)
    \/ TreeHasFocus /\ Quiet /\ GetSelectedFinalFiles

SpecApp == InitApp /\ [][NextApp]_vars

(***************************************************************************)
(* The application's handler of SelectionChanged, which refreshes the      *)
(* sidebar from get_selected_final_files.  In repoyank.py the resolution   *)
(* is a coroutine: it awaits is_binary_heuristic and get_file_size_mb for  *)
(* every file it looks at, and the tree's handlers run at those awaits.    *)
(***************************************************************************)
MaxMessages == 2
MaxChanges == 2

Secure(p) == validate_path_security(p, project_root)

\* iter(self.selected_paths) on the set as it is now.
NewIterator(fr, sel) ==
    [fr EXCEPT !.used = Cardinality(sel), !.yielded = {}, !.stable = sel]

\* First pass: the members not yet yielded whose turn of the loop awaits
\* (a file, not yet processed, inside the root).  The other members' turns
\* leave collected_files as it is.
AwaitedFiles(fr, sel) ==
    {f \in sel \ fr.yielded : IsFile(f) /\ f \notin fr.processed /\ Secure(f)}

\* Second pass: the items of rglob("*") below d whose turn awaits, and the
\* selected directories not yet yielded that have such an item.
AwaitedItems(d, fr) ==
    {i \in RGlob(d) : IsFile(i) /\ i \notin fr.processed /\ Secure(i)}

AwaitedDirs(fr, sel) ==
    {d \in sel \ fr.yielded : IsDir(d) /\ Secure(d) /\ AwaitedItems(d, fr) # {}}

\* The coroutine suspended at "await is_binary_heuristic(f)".
SuspendedFirst(fr, f) ==
    [fr EXCEPT !.state = "first", !.at = "is_binary_heuristic", !.item = f,
               !.yielded = @ \cup {f}]

SuspendedSecond(fr, d, i) ==
    [fr EXCEPT !.state = "second", !.at = "is_binary_heuristic", !.item = i,
               !.dir = d, !.yielded = @ \cup {d}]

\* return sorted(list(relative_collected_files))
Return(fr) ==
    [fr EXCEPT !.state = "returned", !.at = "",
               !.files = Sorted(relative_collected_files(fr.collected))]

\* RuntimeError: Set changed size during iteration.
RaiseRuntimeError(fr) == [fr EXCEPT !.state = "raised", !.at = ""]

\* next() of the set iterator raises if the size of the set is not the one
\* it was created on.  If the set was changed and has that size again, the
\* iterator yields the members that stayed, and may or may not yield those
\* that were added.
SizeChanged(fr, sel) == Cardinality(sel) # fr.used

\* The second loop over self.selected_paths, from next() to the next await
\* or to the return.
SecondPass(fr, sel) ==
    IF SizeChanged(fr, sel) THEN {RaiseRuntimeError(fr)}
    ELSE {SuspendedSecond(fr, di[1], di[2]) :
             di \in {x \in AwaitedDirs(fr, sel) \X UNION {AwaitedItems(d, fr) : d \in AwaitedDirs(fr, sel)} :
                        x[2] \in AwaitedItems(x[1], fr)}}
         \cup IF AwaitedDirs(fr, sel) \cap fr.stable = {} THEN {Return(fr)} ELSE {}

\* The first loop, from next() to the next await; when it is exhausted the
\* second loop begins at once.
FirstPass(fr, sel) ==
    IF SizeChanged(fr, sel) THEN {RaiseRuntimeError(fr)}
    ELSE {SuspendedFirst(fr, f) : f \in AwaitedFiles(fr, sel)}
         \cup IF AwaitedFiles(fr, sel) \cap fr.stable = {}
              THEN SecondPass(NewIterator(fr, sel), sel) ELSE {}

\* The rest of the turn once both awaits are done: the ignore test (v is
\* what it gives), collected_files.add, already_processed.add.
TurnDone(fr, v) ==
    [fr EXCEPT !.collected = IF ~v.ignored /\ ~fr.is_bin /\ size_within_limit(fr.item)
                             THEN @ \cup {fr.item} ELSE @,
               !.processed = @ \cup {fr.item}]

\* After a turn: the first loop goes on; the loop over rglob goes on with
\* the directory's next item, and the second loop when it has none.
AfterTurn(fr, sel) ==
    IF fr.state = "first" THEN FirstPass(fr, sel)
    ELSE IF AwaitedItems(fr.dir, fr) # {}
    THEN {SuspendedSecond(fr, fr.dir, i) : i \in AwaitedItems(fr.dir, fr)}
    ELSE SecondPass(fr, sel)

\* md_widget.update(...) when the call has returned; RuntimeError is caught
\* by "except Exception" and logged, and the sidebar stays as it was.
Sidebar(fr) ==
    selected_files_md' = IF fr.state = "returned" THEN Shown(fr.files)
                         ELSE selected_files_md

\* on_checkable_directory_tree_selection_changed takes a message: the
\* resolution runs to its first await in repoyank.py, and to its end in
\* repopacker/app.py.
OnSelectionChanged ==
    /\ messages > 0 /\ ~InProgress
    /\ messages' = messages - 1
    /\ IF version = "repoyank"
       THEN /\ \E fr \in FirstPass(NewIterator([Idle EXCEPT !.called_with = selected_paths],
                                                 selected_paths), selected_paths) :
                   resolution' = fr /\ Sidebar(fr)
            /\ UNCHANGED gitignore_matchers
       ELSE \E r \in {get_selected_final_files(selected_paths, gitignore_matchers)} :
               /\ resolution' = [Idle EXCEPT !.state = "returned", !.files = r.files,
                                              !.called_with = selected_paths]
               /\ selected_files_md' = Shown(r.files)
               /\ gitignore_matchers' = r.cache
    /\ last' = [Blank EXCEPT !.op = "on_selection_changed"]
    /\ UNCHANGED <<version, project_root, additional_ignored_patterns, fs,
                   selected_paths, app>>

\* The coroutine is resumed when what it awaits is done.
Resumed ==
    /\ InProgress
    /\ IF resolution.at = "is_binary_heuristic"
       THEN /\ resolution' = [resolution EXCEPT !.at = "get_file_size_mb",
                                  !.is_bin = is_binary_heuristic(resolution.item)]
            /\ UNCHANGED <<gitignore_matchers, selected_files_md>>
       ELSE \E v \in {is_path_ignored(resolution.item, gitignore_matchers)} :
            \E fr \in AfterTurn(TurnDone(resolution, v), selected_paths) :
               /\ resolution' = fr /\ Sidebar(fr)
               /\ gitignore_matchers' = v.cache
    /\ last' = [Blank EXCEPT !.op = "resumed"]
    /\ UNCHANGED <<version, project_root, additional_ignored_patterns, fs,
                   selected_paths, app, messages>>

\* A variant in which the message posted does not reach the application.
bubble_lost ==
    /\ resolution' = IF InProgress /\ selected_paths' # selected_paths
                     THEN [resolution EXCEPT
                              !.stable = @ \cap selected_paths',
                              !.changes = IF @ < MaxChanges THEN @ + 1 ELSE @]
                     ELSE resolution
    /\ UNCHANGED <<messages, selected_files_md>>

\* post_message(SelectionChanged) reaches the application's queue; a call
\* in progress is not told, its iterator finds out at its next().
Bubble ==
    /\ messages' = IF last'.posted THEN messages + 1 ELSE messages
    /\ resolution' = IF InProgress /\ selected_paths' # selected_paths
                     THEN [resolution EXCEPT
                              !.stable = @ \cap selected_paths',
                              !.changes = IF @ < MaxChanges THEN @ + 1 ELSE @]
                     ELSE resolution
    /\ UNCHANGED selected_files_md

InitEvents == version \in {"repoyank", "app"} /\ Opened(EventsProject)

NextEvents ==
    \/ messages < MaxMessages /\ \E p \in TreePaths : ToggleSingle(p) /\ Bubble
    \/ messages < MaxMessages /\ \E p \in TreePaths : ToggleNodeAndChildren(p) /\ Bubble
    \/ messages < MaxMessages /\ \E p \in {d \in TreePaths : IsDir(d)}, s \in BOOLEAN :
          ApplySelectionRecursive(p, s) /\ Bubble
    \/ OnSelectionChanged
    \/ Resumed

SpecEvents == InitEvents /\ [][NextEvents]_vars

(***************************************************************************)
(* The selection while the disk changes under it: a file is deleted, a     *)
(* directory loses the permission to be listed.                            *)
(***************************************************************************)
SrcPath == Append(project_root, <<"src">>)
MainPath == Append(SrcPath, <<"main", "txt">>)

\* src/main.txt is deleted by another program.
Deleted ==
    /\ MainPath \in DOMAIN fs
    /\ fs' = [q \in DOMAIN fs \ {MainPath} |-> fs[q]]
    /\ last' = [Blank EXCEPT !.op = "deleted", !.path = MainPath]
    /\ UNCHANGED <<version, project_root, additional_ignored_patterns,
                   selected_paths, gitignore_matchers, app>>

\* The directory src can no longer be listed (PermissionError).
ListingRefused ==
    /\ SrcPath \in DOMAIN fs /\ fs[SrcPath].readable
    /\ fs' = [fs EXCEPT ![SrcPath] = LockedDir]
    /\ last' = [Blank EXCEPT !.op = "listing_refused", !.path = SrcPath]
    /\ UNCHANGED <<version, project_root, additional_ignored_patterns,
                   selected_paths, gitignore_matchers, app>>

\* action_select_all_tree and action_deselect_all_tree.
ActionSelectAllTree == ApplySelectionRecursive(project_root, TRUE)
ActionDeselectAllTree == ApplySelectionRecursive(project_root, FALSE)

InitDisk == version \in Versions /\ Opened(EventsProject)

NextDisk ==
    \/ \E p \in TreePaths : ToggleSingle(p) /\ Quiet
    \/ \E p \in TreePaths : ToggleNodeAndChildren(p) /\ Quiet
    \/ ActionSelectAllTree /\ Quiet
    \/ ActionDeselectAllTree /\ Quiet
    \/ Deleted /\ Quiet
    \/ ListingRefused /\ Quiet

SpecDisk == InitDisk /\ [][NextDisk]_vars

(***************************************************************************)
(* Properties of the selection and of its resolution.                      *)
(***************************************************************************)
\* A path resolves to the project root or to a place below it.
ResolvesInsideRoot(p) ==
    LET r == Resolve(p)
        b == Resolve(project_root)
    IN Len(b) <= Len(r) /\ \A i \in 1..Len(b) : r[i] = b[i]

\* A file is selected, or below a selected directory.
Covered(f) ==
    \/ f \in selected_paths
    \/ \E d \in selected_paths : IsDir(d) /\ d # f /\ IsRelativeTo(f, d)

\* The files of the tree that meet every condition of being packed.
PackableFiles ==
    {f \in TreePaths :
        /\ IsFile(f)
        /\ Covered(f)
        /\ ResolvesInsideRoot(f)
        /\ ~Ignored(f, gitignore_matchers)
        /\ ~is_binary_heuristic(f)
        /\ size_within_limit(f)}

Resolved == last.op = "get_selected_final_files"

LinkPath == Append(project_root, <<"link">>)

\* C1: get_selected_final_files of repoyank.py and repopacker/app.py returns
\* exactly the files that are selected or below a selected directory, resolve
\* inside the project root, are not ignored, are not binary and are at most
\* 10 MB: none that fails a condition, and all that meet them.
C1_ReturnsExactlyThePackableFiles ==
    (Resolved /\ version \in {"repoyank", "app"}) =>
        Range(last.files) = {RelativeTo(f, project_root) : f \in PackableFiles}

\* The case C1 fails on: repopacker/app.py returns the selected symbolic
\* link that points to a file outside the project root.
C1_LinkOutOfRootReturned ==
    /\ Resolved /\ version = "app"
    /\ LinkPath \in selected_paths
    /\ ~ResolvesInsideRoot(LinkPath)
    /\ <<<<"link">>>> \in Range(last.files)

\* C2: in repoyank.py and repopacker/app.py, _toggle_single_node_selection
\* of a path that is ignored and not selected is refused: the selection is
\* left as it was, the bell rings, no exception leaves the handler and no
\* SelectionChanged is posted.
C2_Step ==
    (/\ last'.op = "toggle_single"
     /\ version \in {"repoyank", "app"}
     /\ last'.ignored /\ ~last'.was)
    => /\ selected_paths' = selected_paths
       /\ last'.path \notin selected_paths'
       /\ last'.bell /\ ~last'.posted /\ ~last'.raised

C2_IgnoredUnselectedToggleIsRefused == [][C2_Step]_vars

C2_RefusedToggleHappened ==
    /\ last.op = "toggle_single" /\ version \in {"repoyank", "app"}
    /\ last.ignored /\ ~last.was /\ last.bell
    /\ last.path \notin selected_paths

\* C3: in every version, _toggle_single_node_selection of a selected path
\* removes it from the selection, whether or not the path is ignored when
\* the handler is called, and posts SelectionChanged.
C3_DeselectionAlwaysSucceeds ==
    (last.op = "toggle_single" /\ last.was) =>
        last.path \notin selected_paths /\ ~last.bell /\ last.posted

C3_IgnoredPathDeselected ==
    /\ last.op = "toggle_single" /\ last.was /\ last.ignored
    /\ last.path \notin selected_paths

C3_UnignoredPathDeselectedInRepopack ==
    /\ version = "repopack"
    /\ last.op = "toggle_single" /\ last.was /\ ~last.ignored
    /\ last.path \notin selected_paths

\* The paths of the tree strictly below a directory.
Below(d) == {q \in TreePaths : q # d /\ IsRelativeTo(q, d)}

AppliedTrue == last.op = "apply_selection_recursive" /\ last.select

\* C4: after _apply_selection_recursive(dir, True), in every version, no
\* ignored descendant of dir is selected and every descendant that is not
\* ignored is selected, also below an ignored directory.
C4_AppliedSelectionMatchesIgnoreTest ==
    AppliedTrue =>
        \A d \in Below(last.path) :
            Ignored(d, gitignore_matchers) <=> d \notin selected_paths

\* The case C4 fails on: repopack.py does not descend into the ignored
\* directory .venv, and leaves the file below it, which is not ignored,
\* unselected.
C4_FileBelowIgnoredDirectoryLeftOut ==
    /\ AppliedTrue /\ version = "repopack"
    /\ \E d \in Below(last.path) :
          /\ ~Ignored(d, gitignore_matchers)
          /\ Ignored(Parent(d), gitignore_matchers)
          /\ d \notin selected_paths

\* C5: the list get_selected_final_files returns never holds the same
\* relative path twice, also when a file and directories above it are all
\* selected.
C5_NoDuplicates ==
    Resolved =>
        \A i, j \in 1..Len(last.files) : last.files[i] = last.files[j] => i = j

C5_FileAndItsDirectoryBothSelected ==
    /\ Resolved
    /\ \E f \in selected_paths, d \in selected_paths :
          /\ IsFile(f) /\ IsDir(d) /\ IsRelativeTo(f, d)
          /\ RelativeTo(f, project_root) \in Range(last.files)

(***************************************************************************)
(* Properties of the ignore test.                                          *)
(***************************************************************************)
Asked == last.op = "is_path_ignored"

EscapingPath == project_root \o <<DotDot, <<"secret", "txt">>>>

\* C6: in repoyank.py and repopacker/app.py, _is_path_ignored returns True,
\* and raises nothing, for every path that resolves (".." and symbolic links
\* followed) to a place that is neither the project root nor below it.
C6_OutsideRootIsIgnoredWithoutRaising ==
    (Asked /\ version \in {"repoyank", "app"} /\ ~ResolvesInsideRoot(last.path))
    => last.ignored /\ last.step # "raise"

\* The case C6 fails on: repopacker/app.py compares the path as it is
\* written, and does not report root/../secret.txt ignored.
C6_EscapeThroughDotDotNotIgnored ==
    /\ Asked /\ version = "app"
    /\ last.path = EscapingPath
    /\ ~ResolvesInsideRoot(last.path)
    /\ ~last.ignored

\* A built-in or user pattern as the specification reads it.
PatternHolds(pat, p) ==
    IF pat.dir
    THEN (\E i \in 1..Len(p) : p[i] = pat.text) \/ (IsDir(p) /\ Name(p) = pat.text)
    ELSE FnMatch(Name(p), pat.text)

BuiltInMatches(p) ==
    \E i \in 1..Len(DEFAULT_IGNORES) : PatternHolds(DEFAULT_IGNORES[i], p)

UserMatches(p) ==
    \E i \in 1..Len(additional_ignored_patterns) :
        PatternHolds(additional_ignored_patterns[i], p)

\* The directories whose .gitignore governs a path: the path's own
\* directory and every directory above it, up to the project root.
GoverningDirs(p) == {SubSeq(p, 1, k) : k \in Len(project_root)..(Len(p) - 1)}

\* The rules of a directory's .gitignore, none if it has no such file.
RulesOf(d) ==
    LET gf == Append(d, GitignoreName) IN
    IF gf \in DOMAIN fs /\ fs[gf].kind = "file" /\ fs[gf].readable
    THEN fs[gf].rules ELSE <<>>

\* The rule of a directory's .gitignore that decides a path, 0 if none.
DecidingRule(d, p) == LastRule(RulesOf(d), Name(p), Len(RulesOf(d)))

FileIgnores(d, p) == DecidingRule(d, p) # 0 /\ ~RulesOf(d)[DecidingRule(d, p)].neg
FileKeeps(d, p) == DecidingRule(d, p) # 0 /\ RulesOf(d)[DecidingRule(d, p)].neg

SomeGoverningFileIgnores(p) == \E d \in GoverningDirs(p) : FileIgnores(d, p)

\* C7: in repoyank.py and repopacker/app.py, _is_path_ignored returns False
\* if and only if none of the three steps matches: the path resolves inside
\* the project root, no built-in or user pattern matches it, and no
\* governing .gitignore matches it.
C7_FalseIffNoStepMatches ==
    (Asked /\ version \in {"repoyank", "app"}) =>
        (~last.ignored <=>
            /\ ResolvesInsideRoot(last.path)
            /\ ~BuiltInMatches(last.path) /\ ~UserMatches(last.path)
            /\ ~SomeGoverningFileIgnores(last.path))

\* A case C7 fails on: repopacker/app.py returns False for the symbolic link
\* that points out of the project root, although the first step matches.
C7_LinkOutOfRootNotIgnored ==
    /\ Asked /\ version = "app"
    /\ last.path = LinkPath
    /\ ~ResolvesInsideRoot(last.path)
    /\ ~last.ignored

\* C8: in repoyank.py and repopacker/app.py, for a path inside the project
\* root, _is_path_ignored returns True if the .gitignore of the path's own
\* directory, or of any directory above it up to the project root, matches
\* the path.
C8_EveryGoverningFileIsConsulted ==
    (/\ Asked /\ version \in {"repoyank", "app"}
     /\ last.path \in TreePaths /\ ResolvesInsideRoot(last.path)
     /\ SomeGoverningFileIgnores(last.path))
    => last.ignored

\* The case C8 fails on: repoyank.py consults the project root's .gitignore
\* only, and does not report src/main.txt ignored when src/.gitignore names
\* it.
C8_NestedFileNotConsulted ==
    /\ Asked /\ version = "repoyank"
    /\ last.path \in TreePaths /\ ResolvesInsideRoot(last.path)
    /\ FileIgnores(Parent(last.path), last.path)
    /\ Parent(last.path) # project_root
    /\ ~last.ignored

\* A shallower governing .gitignore ignores the path, a deeper one keeps it
\* with a negated pattern, and none deeper still ignores it again.
KeptByDeeperFile(p) ==
    \E d1, d2 \in GoverningDirs(p) :
        /\ Len(d1) < Len(d2)
        /\ FileIgnores(d1, p) /\ FileKeeps(d2, p)
        /\ \A d3 \in GoverningDirs(p) : Len(d3) > Len(d2) => ~FileIgnores(d3, p)

\* C9: in repoyank.py and repopacker/app.py, when a shallower governing
\* .gitignore ignores a path and a deeper one un-ignores it with a negated
\* pattern, the deeper file takes precedence and _is_path_ignored returns
\* False.
C9_DeeperNegationTakesPrecedence ==
    (/\ Asked /\ version \in {"repoyank", "app"}
     /\ last.path \in TreePaths /\ ResolvesInsideRoot(last.path)
     /\ ~BuiltInMatches(last.path) /\ ~UserMatches(last.path)
     /\ KeptByDeeperFile(last.path))
    => ~last.ignored

\* The case C9 fails on: the root's .gitignore matches, the loop returns
\* True, and the negation in the deeper file is never looked at.
C9_ShallowerFileWins ==
    /\ Asked /\ version \in {"repoyank", "app"}
    /\ last.path \in TreePaths
    /\ KeptByDeeperFile(last.path)
    /\ last.ignored /\ last.step = "gitignore"

\* C10: in repoyank.py and repopacker/app.py, a pattern that ends with "/"
\* ignores a path iff its name is a segment of the path or the path is a
\* directory of that name, any other pattern iff it glob-matches the final
\* segment; the built-in patterns are tried before the user's, and the
\* first match returns True.
C10_PatternStep ==
    (Asked /\ version \in {"repoyank", "app"} /\ last.step # "security") =>
        /\ last.step = "default" <=> BuiltInMatches(last.path)
        /\ last.step = "additional" <=>
               (~BuiltInMatches(last.path) /\ UserMatches(last.path))
        /\ last.step \in {"default", "additional"} => last.ignored

C10_UserDirectoryPatternOnAncestorSegment ==
    /\ Asked /\ version \in {"repoyank", "app"}
    /\ last.path = project_root \o << <<"src">>, <<"main", "txt">> >>
    /\ last.step = "additional" /\ last.ignored

C10_GlobNotTriedOnAncestorSegment ==
    /\ Asked /\ version \in {"repoyank", "app"}
    /\ last.path = project_root \o << <<"", "venv">>, <<"cfg", "txt">> >>
    /\ last.step \notin {"security", "default", "additional"}

(***************************************************************************)
(* The scenario of src/main.txt, src/image.png and a .gitignore of *.png.  *)
(***************************************************************************)
\* The project root holds exactly src/main.txt, src/image.png (binary) and
\* .gitignore with the line "*.png".
PngScenario ==
    /\ version = "repoyank"
    /\ project_root = HomeProj
    /\ additional_ignored_patterns = NoUserPatterns
    /\ fs = MakeFs(HomeProj, {"src", "image"}, IgnorePng, {}, TextFile)

\* The selection _apply_selection_recursive(root, True) leaves when it
\* starts from the empty one.
AllFromEmpty == apply_selection_recursive(project_root, TRUE, Sel({}, NoFunction)).sel

\* get_selected_final_files is called right after
\* _apply_selection_recursive(root, True) on the empty selection.
ResolvedAfterSelectAll ==
    /\ PngScenario
    /\ last.op = "apply_selection_recursive" /\ last.path = project_root
    /\ last.select /\ ~last.was
    /\ selected_paths = AllFromEmpty
    /\ last'.op = "get_selected_final_files"

C11_Step == ResolvedAfterSelectAll => last'.files = << <<GitignoreName>>, <<<<"src">>, <<"main", "txt">>>> >>

\* C11 (amended): in the scenario, from the empty selection, after
\* _apply_selection_recursive(root, True) get_selected_final_files returns
\* exactly [".gitignore", "src/main.txt"]: the .gitignore file is a text
\* file of the project that no rule ignores.
C11_ScenarioReturnsGitignoreAndMain == [][C11_Step]_vars

C11_OriginalStep == ResolvedAfterSelectAll => last'.files = << <<<<"src">>, <<"main", "txt">>>> >>

\* C11 as stated: the list returned is exactly ["src/main.txt"].
C11_ScenarioReturnsMainOnly == [][C11_OriginalStep]_vars

C11_ScenarioResolved ==
    /\ PngScenario /\ Resolved
    /\ selected_paths = AllFromEmpty
    /\ Append(project_root, GitignoreName) \in selected_paths
    /\ Append(project_root, <<"src">>) \o <<<<"image", "png">>>> \notin selected_paths
    /\ Len(last.files) = 2

(***************************************************************************)
(* Properties of the list returned.                                        *)
(***************************************************************************)
\* The file has a null byte within its first 1024 bytes.
NullByteInSample(f) ==
    Entry(f).nullAt >= 0 /\ Entry(f).nullAt < DEFAULT_BINARY_SAMPLE_SIZE

Returned(f) == RelativeTo(f, project_root) \in Range(last.files)

\* C12: get_selected_final_files returns no file with a null byte within
\* its first 1024 bytes, also when the file is selected itself and no rule
\* ignores it; it returns every file that is selected itself, is not
\* ignored, is within the size limit, can be read and has no null byte there.
C12_NullByteInSampleExcludes ==
    Resolved =>
        \A f \in {g \in TreePaths : IsFile(g)} :
            /\ NullByteInSample(f) => ~Returned(f)
            /\ (/\ f \in selected_paths
                /\ ~Ignored(f, gitignore_matchers)
                /\ size_within_limit(f)
                /\ Entry(f).readable
                /\ ~NullByteInSample(f)) => Returned(f)

C12_SelectedBinaryFileLeftOut ==
    /\ Resolved
    /\ \E f \in selected_paths :
          /\ IsFile(f) /\ NullByteInSample(f)
          /\ ~Ignored(f, gitignore_matchers)
          /\ ~Returned(f)

C12_NullByteAfterSampleReturned ==
    /\ Resolved
    /\ \E f \in selected_paths :
          /\ IsFile(f) /\ Entry(f).nullAt >= DEFAULT_BINARY_SAMPLE_SIZE
          /\ Returned(f)

C12_SelectedBinaryFileLeftOutInApp == C12_SelectedBinaryFileLeftOut /\ version = "app"

(***************************************************************************)
(* Round trips and repeated calls.                                         *)
(***************************************************************************)
\* The selection a second _toggle_single_node_selection(p) would leave,
\* called in the state the step ends in.
C13_Step ==
    (last'.op = "toggle_single" /\ ~last'.ignored /\ ~last'.raised) =>
        toggle_single_node_selection(last'.path,
            Sel(selected_paths', gitignore_matchers')).sel = selected_paths

\* C13: for a path that is not ignored, two calls of
\* _toggle_single_node_selection(p) in a row leave selected_paths as it
\* was before the first, whether p was selected or not.
C13_ToggleTwiceRestoresSelection == [][C13_Step]_vars

C13_SelectedThenBack ==
    /\ last.op = "toggle_single" /\ ~last.ignored /\ ~last.was
    /\ last.path \in selected_paths
    /\ selected_paths # {last.path}
    /\ toggle_single_node_selection(last.path, Here).sel = selected_paths \ {last.path}

C13_DeselectedThenBack ==
    /\ last.op = "toggle_single" /\ ~last.ignored /\ last.was
    /\ last.path \notin selected_paths
    /\ toggle_single_node_selection(last.path, Here).sel = selected_paths \cup {last.path}

C14_Step ==
    last'.op = "get_selected_final_files" =>
        /\ selected_paths' = selected_paths
        /\ get_selected_final_files(selected_paths', gitignore_matchers').files
               = last'.files

\* C14: two calls of get_selected_final_files with no change of the
\* selection or of the filesystem between them return the same list,
\* whatever the matcher cache held before the first, and neither changes
\* selected_paths.
C14_SecondCallReturnsTheSame == [][C14_Step]_vars

\* A call that returned files, some left out by a .gitignore whose matcher
\* the cache holds, and whose repetition returns the same.
C14_ResolvedAndRepeated ==
    /\ Resolved /\ last.files # <<>>
    /\ \E d \in DOMAIN gitignore_matchers : gitignore_matchers[d].rules # <<>>
    /\ \E f \in TreePaths : IsFile(f) /\ Covered(f) /\ ~Returned(f)
    /\ get_selected_final_files(selected_paths, gitignore_matchers).files = last.files

\* The matcher cache is always what loading gives: the files read do not
\* change in a session.
C14_CacheHoldsWhatLoadingGives ==
    \A d \in DOMAIN gitignore_matchers : gitignore_matchers[d] = load_matcher(d)

\* A path relative to the project root: it is not the absolute path, has
\* no ".." segment, and names an entry of the tree below the root.
IsRelativePathBelowRoot(r) ==
    /\ r # <<>>
    /\ ~IsRelativeTo(r, project_root)
    /\ DotDot \notin Parts(r)
    /\ (project_root \o r) \in TreePaths \ {project_root}

\* C15: every element of the list get_selected_final_files returns is a
\* path relative to the project root, and the list is in strictly ascending
\* order of the relative paths (the order of pathlib: segment by segment).
C15_RelativeAndStrictlyAscending ==
    Resolved =>
        /\ \A i \in 1..Len(last.files) : IsRelativePathBelowRoot(last.files[i])
        /\ \A i \in 1..(Len(last.files) - 1) :
               PathLess(last.files[i], last.files[i + 1])

C15_SeveralFilesReturned ==
    /\ Resolved /\ Len(last.files) >= 2
    /\ \E i \in 1..Len(last.files) : Len(last.files[i]) >= 2
    /\ PathLess(last.files[1], last.files[2])

(***************************************************************************)
(* Properties of the matcher cache.                                        *)
(***************************************************************************)
C16_Step ==
    /\ \A d \in DOMAIN gitignore_matchers :
          /\ d \in DOMAIN gitignore_matchers'
          /\ gitignore_matchers'[d] = gitignore_matchers[d]
    /\ \A i \in 1..Len(last'.parsed) :
          /\ last'.parsed[i] \notin DOMAIN gitignore_matchers
          /\ last'.parsed[i] \in DOMAIN gitignore_matchers'
          /\ \A j \in 1..Len(last'.parsed) : last'.parsed[j] = last'.parsed[i] => j = i

\* C16: over any sequence of calls of _is_path_ignored, an entry of
\* _gitignore_matchers is never replaced or dropped, and the .gitignore of
\* a directory is looked for and parsed only when the directory has no
\* entry: at most once.
C16_ParsedAtMostOnce == [][C16_Step]_vars

\* A call that went through the .gitignore step on cached matchers only,
\* one of them parsed from a file, one the matcher that never matches.
C16_AnsweredFromTheCache ==
    /\ Asked /\ last.step \in {"gitignore", "none"}
    /\ last.parsed = <<>>
    /\ \E d \in DOMAIN gitignore_matchers : gitignore_matchers[d].rules # <<>>
    /\ \E d \in DOMAIN gitignore_matchers : gitignore_matchers[d].rules = <<>>

C16_ParsedOnFirstUse == Asked /\ last.parsed # <<>>

\* The directory has a .gitignore that cannot be read.
GitignoreUnreadable(d) ==
    LET gf == Append(d, GitignoreName) IN
    gf \in DOMAIN fs /\ fs[gf].kind = "file" /\ ~fs[gf].readable

\* C17: in repoyank.py and repopacker/app.py, when the .gitignore of a
\* governing directory cannot be read, _is_path_ignored raises nothing,
\* that directory's matcher is the one that never matches, and the result
\* is the one the other governing .gitignore files give.
C17_UnreadableFileIsPassedOver ==
    (/\ Asked /\ version \in {"repoyank", "app"}
     /\ last.path \in TreePaths /\ ResolvesInsideRoot(last.path)
     /\ \E d \in GoverningDirs(last.path) : GitignoreUnreadable(d))
    => /\ last.step # "raise"
       /\ \A d \in DOMAIN gitignore_matchers :
             GitignoreUnreadable(d) => gitignore_matchers[d].rules = <<>>
       /\ (~BuiltInMatches(last.path) /\ ~UserMatches(last.path)) =>
             (last.ignored <=> SomeGoverningFileIgnores(last.path))

\* The case C17 fails on: the root's .gitignore cannot be read, and
\* repoyank.py does not go on to src/.gitignore, which names the path.
C17_RemainingFileNotEvaluated ==
    /\ Asked /\ version = "repoyank"
    /\ GitignoreUnreadable(project_root)
    /\ project_root \in DOMAIN gitignore_matchers
    /\ gitignore_matchers[project_root].rules = <<>>
    /\ FileIgnores(Parent(last.path), last.path)
    /\ ~last.ignored /\ last.step = "none"

\* repopacker/app.py goes on: the root's file cannot be read and the
\* path is ignored by src/.gitignore.
C17_RemainingFileEvaluatedInApp ==
    /\ Asked /\ version = "app"
    /\ GitignoreUnreadable(project_root)
    /\ project_root \in DOMAIN gitignore_matchers
    /\ FileIgnores(Parent(last.path), last.path)
    /\ last.ignored /\ last.step = "gitignore"

C17_HoldsInApp == version = "app" => C17_UnreadableFileIsPassedOver

C17_HoldsUnderTheRootOnly ==
    (Asked /\ Parent(last.path) = project_root) => C17_UnreadableFileIsPassedOver

(***************************************************************************)
(* Properties of the recursive selection.                                  *)
(***************************************************************************)
AppliedRecursively == last.op = "apply_selection_recursive"

\* The directories at or below d, as the tree lists them, whose listing
\* fails.
UnlistableBelow(d) == {q \in Below(d) : ListingFails(q)}

\* C18: in repoyank.py and repopacker/app.py, when the listing of a
\* subdirectory fails during _apply_selection_recursive, the call returns
\* (the handler goes on to post SelectionChanged), and every path the walk
\* can list, the siblings of that subdirectory and what is below them, has
\* got the treatment asked for: selected unless ignored, or deselected.
C18_ListingErrorLeavesSiblingsTreated ==
    (/\ AppliedRecursively /\ version \in {"repoyank", "app"}
     /\ UnlistableBelow(last.path) # {})
    => /\ last.posted
       /\ \A q \in {last.path} \cup Below(last.path) :
             IF last.select
             THEN ~Ignored(q, gitignore_matchers) => q \in selected_paths
             ELSE q \notin selected_paths

C18_SiblingsOfLockedDirectorySelected ==
    /\ AppliedRecursively /\ last.select /\ last.path = project_root
    /\ \E d \in UnlistableBelow(last.path) :
          /\ d \in selected_paths
          /\ \E f \in DOMAIN fs : Parent(f) = d /\ f \notin selected_paths
          /\ \E q \in Below(last.path) :
                /\ ~IsRelativeTo(q, d) /\ Len(q) > Len(d)
                /\ q \in selected_paths

C18_SiblingsOfLockedDirectoryDeselected ==
    /\ AppliedRecursively /\ ~last.select /\ last.was /\ last.path = project_root
    /\ UnlistableBelow(last.path) # {}
    /\ selected_paths = {}

ToggledRecursively == last.op = "toggle_node_and_children"

C19_Step ==
    (last'.op = "toggle_node_and_children" /\ version \in {"repoyank", "app"}) =>
        IF last'.was
        THEN IsDir(last'.path) =>
                \A q \in {last'.path} \cup Below(last'.path) : q \notin selected_paths'
        ELSE selected_paths' =
                apply_selection_recursive(last'.path, TRUE, Here).sel

\* C19: in repoyank.py and repopacker/app.py,
\* _toggle_node_and_children_selection(p) of a selected directory leaves
\* neither p nor any path listed below it selected, ignored or not; of a
\* path that is not selected it leaves the selection that
\* _apply_selection_recursive(p, True) leaves.
C19_ToggleAppliesInverseToSubtree == [][C19_Step]_vars

C19_SubtreeDeselected ==
    /\ ToggledRecursively /\ version \in {"repoyank", "app"}
    /\ last.was /\ IsDir(last.path) /\ ~last.bell /\ last.posted
    /\ \E q \in Below(last.path) : Ignored(q, gitignore_matchers)
    /\ \A q \in {last.path} \cup Below(last.path) : q \notin selected_paths

C19_SubtreeSelected ==
    /\ ToggledRecursively /\ version \in {"repoyank", "app"}
    /\ ~last.was /\ IsDir(last.path) /\ Ignored(last.path, gitignore_matchers)
    /\ \E q \in Below(last.path) : q \in selected_paths

(***************************************************************************)
(* Properties of the application.                                          *)
(***************************************************************************)
C20_Step ==
    /\ (app'.event = "on_mount" /\ app.phase = "constructed"
            /\ app.arg_initial_path = None)
       => /\ app'.phase = "running"
          /\ Top(app'.screens) = PathInputScreen
          /\ ~app'.tree /\ app'.current_project_path = None
    /\ (app'.event = "action_cancel" /\ app.current_project_path = None)
       => /\ app'.phase = "running"
          /\ app'.screens = <<MainScreen>>
          /\ ~app'.tree /\ app'.current_project_path = None
          /\ project_root' = None
    /\ (app'.event = "action_quit" /\ app.phase = "running")
       => app'.phase = "exited"

\* C20: constructed with no initial path, the application opens the
\* path-input dialog when it is mounted; cancelling the dialog dismisses it
\* and leaves no project and no directory tree; quitting then ends the
\* application.
C20_CancelThenQuitEndsWithoutProject == [][C20_Step]_vars

\* The application has exited after the dialog was cancelled with no
\* project loaded.
C20_ExitedAfterCancel ==
    /\ app.phase = "exited"
    /\ app.arg_initial_path = None
    /\ app.current_project_path = None /\ ~app.tree
    /\ app.screens = <<MainScreen>>
    /\ app.notice = "No folder selected."

\* Once it has exited the application takes no further step.
C20_ExitedStep == app.phase = "exited" => UNCHANGED vars

C20_NothingAfterExit == [][C20_ExitedStep]_vars

(***************************************************************************)
(* Properties of the resolution under the event loop, and of the sidebar.  *)
(***************************************************************************)
\* What get_selected_final_files gives on a selection that does not change.
ResolutionOf(sel) == get_selected_final_files(sel, gitignore_matchers).files

\* The call in progress comes to its end in this step.
ResolutionEnds == InProgress /\ resolution'.state \in {"returned", "raised"}

C21_Step ==
    (ResolutionEnds /\ resolution'.changes = 1)
    => /\ resolution'.state = "returned"
       /\ resolution'.files \in {ResolutionOf(resolution'.called_with),
                                  ResolutionOf(selected_paths)}

\* C21: when the selection is changed once by a toggle at an await of a
\* get_selected_final_files in progress, the call still returns, and what it
\* returns is the resolution of the selection before the change or of the
\* selection after it.
C21_ToggleAtAwaitLeavesResolutionSound == [][C21_Step]_vars

\* The call was left by RuntimeError after the selection changed once.
C21_RaisedAfterOneToggle ==
    /\ version = "repoyank"
    /\ resolution.state = "raised" /\ resolution.changes = 1

C21_UnchangedStep ==
    (ResolutionEnds /\ resolution'.changes = 0)
    => /\ resolution'.state = "returned"
       /\ resolution'.files = ResolutionOf(selected_paths)

\* With no change of the selection during the call, the coroutine returns
\* what the resolution gives.
C21_UndisturbedCallReturnsResolution == [][C21_UnchangedStep]_vars

\* Every message posted has been handled and no call is in progress.
Settled == messages = 0 /\ ~InProgress

\* C22: once every SelectionChanged message has been handled, the sidebar
\* shows the list get_selected_final_files gives for the selection as it is,
\* or the text for no packable files when the list is empty; it still shows
\* its first text only if the selection was never changed.
C22_SettledSidebarShowsResolution ==
    Settled => \/ selected_files_md = Shown(ResolutionOf(selected_paths))
               \/ selected_files_md = NoneSelected /\ selected_paths = {}

\* The sidebar lists files after the messages of several changes.
C22_SidebarListsFiles ==
    /\ Settled /\ selected_paths # {}
    /\ selected_files_md.text = "Selected Files"
    /\ Len(selected_files_md.items) = 2

\* The same where the resolution is a coroutine.
C22_SidebarListsFilesAfterCoroutine ==
    /\ version = "repoyank"
    /\ Settled /\ resolution.state = "returned"
    /\ selected_files_md = Shown(resolution.files) /\ resolution.files # <<>>

C22_PostStep ==
    selected_paths' # selected_paths => last'.posted /\ messages' = messages + 1

\* Every change of selected_paths posts SelectionChanged.
C22_EveryChangePosts == [][C22_PostStep]_vars

(***************************************************************************)
(* Failures of single entries during the resolution.                       *)
(***************************************************************************)
\* The entries that can be reached from the root by listing directories.
Reachable == visited_repoyank(project_root)

\* A directory that cannot be listed, or a file that cannot be read, is
\* selected or below a selected directory.
CoveredEntryFails ==
    \E q \in Reachable :
        /\ q \in selected_paths \/ Covered(q)
        /\ ListingFails(q) \/ (IsFile(q) /\ ~Entry(q).readable)

\* The files that are reached, are selected or below a selected directory,
\* and meet the conditions of being packed.
StillPackable ==
    {f \in Reachable :
        /\ IsFile(f) /\ Covered(f) /\ ResolvesInsideRoot(f)
        /\ ~Ignored(f, gitignore_matchers)
        /\ ~is_binary_heuristic(f) /\ size_within_limit(f)}

\* C23: when a directory that cannot be listed or a file that cannot be read
\* is among what the selection covers, get_selected_final_files returns all
\* the same every other file that is covered and meets the conditions.
C23_FailureLeavesOthersReturned ==
    (Resolved /\ CoveredEntryFails) => \A f \in StillPackable : Returned(f)

\* The root is selected, the directory vault cannot be listed and notes.bin
\* cannot be read; src/main.txt is returned.
C23_ReturnedBesideFailures ==
    /\ Resolved /\ project_root \in selected_paths
    /\ ListingFails(Append(project_root, <<"vault">>))
    /\ ~Entry(NotesPath).readable /\ ~Returned(NotesPath)
    /\ Returned(project_root \o << <<"src">>, <<"main", "txt">> >>)
    /\ Len(last.files) = 1

(***************************************************************************)
(* The "(pack)" annotation against the resolution.                         *)
(***************************************************************************)
Rendered == last.op = "render_label"

\* C24: the label of a file carries "(pack)" if and only if the file's
\* relative path is in the list get_selected_final_files gives in the same
\* state.
C24_PackAnnotationAgreesWithResolution ==
    (Rendered /\ IsFile(last.path))
    => (last.pack <=> RelativeTo(last.path, project_root)
                        \in Range(ResolutionOf(selected_paths)))

\* repoyank.py annotates a selected file that has a null byte in its sample,
\* which the resolution leaves out.
C24_BinaryFileAnnotated ==
    /\ Rendered /\ version = "repoyank"
    /\ last.path = NotesPath /\ IsFile(NotesPath) /\ ResolvesInsideRoot(NotesPath)
    /\ NullByteInSample(NotesPath)
    /\ last.pack
    /\ RelativeTo(NotesPath, project_root) \notin Range(ResolutionOf(selected_paths))

\* In repopacker/app.py the two agree.
C24_AgreesInApp == version = "app" => C24_PackAnnotationAgreesWithResolution

\* In repoyank.py they agree on every file that is neither binary nor too
\* large nor unreadable.
C24_AgreesOnTextFiles ==
    (Rendered /\ IsFile(last.path)
        /\ ~is_binary_heuristic(last.path) /\ size_within_limit(last.path))
    => (last.pack <=> RelativeTo(last.path, project_root)
                        \in Range(ResolutionOf(selected_paths)))

\* A file below a selected directory is annotated and returned.
C24_AnnotatedBelowSelectedDirectory ==
    /\ Rendered /\ version = "app" /\ last.pack
    /\ last.path \notin selected_paths

(***************************************************************************)
(* Deselect all.                                                           *)
(***************************************************************************)
DeselectedAll ==
    /\ last.op = "apply_selection_recursive"
    /\ last.path = project_root /\ ~last.select

\* C25: after deselect all, selected_paths is empty, whatever was selected
\* before, also when a selected path is no longer on disk or lies below a
\* directory that cannot be listed.
C25_DeselectAllEmptiesSelection == DeselectedAll => selected_paths = {}

\* src/main.txt was selected and deleted: deselect all leaves it selected.
C25_DeletedPathStaysSelected ==
    /\ DeselectedAll
    /\ MainPath \notin DOMAIN fs
    /\ selected_paths = {MainPath}

\* src/main.txt was selected and src can no longer be listed: deselect all
\* leaves it selected.
C25_PathBelowUnlistableStaysSelected ==
    /\ DeselectedAll
    /\ MainPath \in DOMAIN fs /\ ListingFails(SrcPath)
    /\ selected_paths = {MainPath}

\* After deselect all, what is still selected is not reached by the walk
\* from the root.
C25_OnlyUnreachedPathsStay ==
    DeselectedAll => selected_paths \cap visited_repoyank(project_root) = {}

(***************************************************************************)
(* What the selection can hold.                                            *)
(***************************************************************************)
\* C26: with the rules and the disk fixed, whatever toggles and recursive
\* applications were made from the empty selection, no member of
\* selected_paths is ignored, and every member is the project root or a path
\* below it.
C26_SelectedPathsAreUnignoredAndInRoot ==
    \A p \in selected_paths :
        /\ ~Ignored(p, gitignore_matchers)
        /\ p = project_root \/ IsRelativeTo(p, project_root)

\* Select all was applied and left out an ignored path of the tree.
C26_SelectAllLeftIgnoredOut ==
    /\ AppliedTrue /\ last.path = project_root
    /\ selected_paths # {}
    /\ \E q \in TreePaths : Ignored(q, gitignore_matchers) /\ q \notin selected_paths

(***************************************************************************)
(* Files below an ignored directory.                                       *)
(***************************************************************************)
\* The directories between the root and f, the root left out, that
\* _is_path_ignored reports ignored.
IgnoredDirsAbove(f) ==
    {d \in ParentsWithinRoot(f) \ {project_root} :
        IsDir(d) /\ Ignored(d, gitignore_matchers)}

VenvPath == Append(project_root, <<"", "venv">>)
CfgPath == Append(VenvPath, <<"cfg", "txt">>)

\* C27: no file below a directory that is ignored is in the list
\* get_selected_final_files returns, whatever is selected.
C27_NothingReturnedBelowIgnoredDirectory ==
    Resolved => \A f \in TreePaths : Returned(f) => IgnoredDirsAbove(f) = {}

\* .venv is ignored by the pattern ".venv", which is matched against the
\* last name only: .venv/cfg.txt is not ignored, and is returned.
C27_FileBelowVenvReturned ==
    /\ Resolved /\ IsDir(VenvPath)
    /\ Ignored(VenvPath, gitignore_matchers)
    /\ ~Ignored(CfgPath, gitignore_matchers)
    /\ Returned(CfgPath)

\* Below a directory whose name a pattern ending in "/" holds, nothing is
\* returned: such a pattern is looked for among all the parts of a path.
C27_HoldsForDirectoryPatterns ==
    Resolved => \A f \in TreePaths :
        Returned(f) => \A d \in ParentsWithinRoot(f) \ {project_root} :
                           Name(d) \notin DefaultMatchesPart

(***************************************************************************)
(* The ignore test and the place of the project root.                      *)
(***************************************************************************)
\* The names of the path below the project root.
NamesBelowRoot(p) == Parts(RelativeTo(p, project_root))

\* The path is the root or inside it, and no rule matches any of its names
\* below the root: no built-in pattern, no user pattern, no .gitignore of a
\* governing directory.
UnmatchedBelowRoot(p) ==
    /\ p = project_root \/ IsRelativeTo(p, project_root)
    /\ ResolvesInsideRoot(p)
    /\ NamesBelowRoot(p) \cap DefaultMatchesPart = {}
    /\ p # project_root =>
          /\ Name(p) \notin DefaultMatchesName
          /\ IsDir(p) => Name(p) \notin DefaultMatchesDir
          /\ \A i \in 1..Len(additional_ignored_patterns) :
                ~PatternMatches(additional_ignored_patterns[i], NamesBelowRoot(p),
                                Name(p), IsDir(p))
    /\ ~SomeGoverningFileIgnores(p)

\* C28: the verdict does not depend on where the project root lies: the
\* root itself is not ignored, and neither is a path inside it none of whose
\* names below the root is matched by a rule.
C28_VerdictIndependentOfRootLocation ==
    (Asked /\ UnmatchedBelowRoot(last.path)) => ~last.ignored /\ last.step # "raise"

\* The project lies under /var: the root is ignored by the pattern "var/".
C28_RootUnderVarIgnored ==
    /\ Asked /\ project_root = VarProj /\ last.path = project_root
    /\ last.ignored /\ last.step = "default"

\* So is an unmatched file of that project.
C28_FileUnderVarIgnored ==
    /\ Asked /\ project_root = VarProj
    /\ last.path = MainPath /\ UnmatchedBelowRoot(MainPath)
    /\ last.ignored

\* With no name of the root's own path held by a pattern, the formula holds.
C28_HoldsUnderHome ==
    project_root = HomeProj => C28_VerdictIndependentOfRootLocation

\* A path of the project under /home that no rule matches was asked about.
C28_UnmatchedFileUnderHomeKept ==
    /\ Asked /\ project_root = HomeProj
    /\ last.path = MainPath /\ UnmatchedBelowRoot(MainPath)
    /\ ~last.ignored

(***************************************************************************)
(* The recursive toggle, twice.                                            *)
(***************************************************************************)
\* Neither p nor a path below it is selected.
NothingSelectedAt(p) == \A q \in selected_paths : q # p /\ ~IsRelativeTo(q, p)

\* The selection a second _toggle_node_and_children_selection(p) would
\* leave, called in the state the step ends in.
C29_Step ==
    (last'.op = "toggle_node_and_children" /\ NothingSelectedAt(last'.path)) =>
        toggle_node_and_children_selection(last'.path,
            Sel(selected_paths', gitignore_matchers')).sel = selected_paths

\* C29: from a state in which neither p nor a path below p is selected, two
\* calls of _toggle_node_and_children_selection(p) in a row leave
\* selected_paths as it was, also when p is an ignored directory that holds
\* paths that are not ignored.
C29_RecursiveToggleTwiceRestoresSelection == [][C29_Step]_vars

\* .venv is ignored and never becomes selected, so each toggle of it selects:
\* after the toggle of .venv, .venv/cfg.txt is selected and a further toggle
\* leaves it selected.
C29_IgnoredDirectoryToggledTwice ==
    /\ ToggledRecursively /\ last.path = VenvPath /\ last.ignored
    /\ VenvPath \notin selected_paths
    /\ selected_paths = {CfgPath}
    /\ toggle_node_and_children_selection(VenvPath, Here).sel = {CfgPath}

C29_SelectableStep ==
    (/\ last'.op = "toggle_node_and_children" /\ NothingSelectedAt(last'.path)
     /\ version = "repopack" \/ ~last'.ignored \/ ~IsDir(last'.path))
    => toggle_node_and_children_selection(last'.path,
            Sel(selected_paths', gitignore_matchers')).sel = selected_paths

\* The round trip holds for every path that is not an ignored directory,
\* and in repopack.py for every path.
C29_HoldsUnlessIgnoredDirectory == [][C29_SelectableStep]_vars

\* A directory that is not ignored was toggled from nothing selected and a
\* second toggle would deselect it and all below it.
C29_DirectoryThereAndBack ==
    /\ ToggledRecursively /\ last.path = SrcPath /\ ~last.ignored /\ ~last.was
    /\ selected_paths = {SrcPath, MainPath}
    /\ toggle_node_and_children_selection(SrcPath, Here).sel = {}

(***************************************************************************)
(* The recursive walk and symbolic links to directories.                   *)
(***************************************************************************)
\* The paths _apply_selection_recursive was called on, by the last call.
Visited ==
    IF version = "repopack"
    THEN visited_repopack(last.path, last.select, gitignore_matchers)
    ELSE visited_repoyank(last.path)

\* The directory entry a path names: the directory it resolves into, and
\* its last name.
EntryOf(q) == Append(Resolve(Parent(q)), Name(q))

LoopPath == Append(project_root, <<"loop">>)

\* C30: _apply_selection_recursive comes to an end on every finite tree and
\* is called at most once per directory entry, also when the tree holds a
\* symbolic link to a directory above it.
C30_EachEntryVisitedAtMostOnce ==
    AppliedRecursively =>
        \A q1 \in Visited : \A q2 \in Visited : EntryOf(q1) = EntryOf(q2) => q1 = q2

\* Select all came to an end and went through the link: src/main.txt is
\* selected under its own path and under the link's.
C30_EntrySelectedUnderTwoPaths ==
    /\ AppliedTrue /\ last.path = project_root
    /\ IsSymlink(LoopPath) /\ Resolve(LoopPath) = project_root
    /\ MainPath \in selected_paths
    /\ LoopPath \o << <<"src">>, <<"main", "txt">> >> \in selected_paths

\* The walk ends where the chain of links is longer than the system follows.
C30_WalkEndsAtLinkLimit ==
    AppliedRecursively =>
        \A q \in Visited : Len(q) <= Len(project_root) + MaxSymlinkHops + 2

====
